---------------------------- MODULE Spec2Model ----------------------------
(***************************************************************************)
(* A model of src/scraper.py (IndiaMART lead scraper).                     *)
(*                                                                         *)
(* Text is modelled as a sequence of one-character strings, so that the    *)
(* string operations of the code (lower, in, count, strip, isdigit,        *)
(* slicing) are computed character by character.                           *)
(*                                                                         *)
(* The browser is the environment.  Its primitives behave as in section 6  *)
(* of spec.md: waits and element look-ups may time out or find nothing;    *)
(* a request to open a window yields at most one new window, which is      *)
(* either registered before the wait that follows it ends or never;        *)
(* closing or switching to a window that is open succeeds.                 *)
(***************************************************************************)
EXTENDS Integers, Sequences, FiniteSets, TLC

VARIABLES
  \* ---- retry(max_attempts, delay).decorator.wrapper, one call of it
  max_attempts,   \* the decorator's max_attempts
  attempts,       \* wrapper's local `attempts`
  invocations,    \* history: how many times func was invoked in this call
  returnedAt,     \* history: index of the invocation that returned normally, 0 if none
  script,         \* the wrapped operation: outcome of its k-th invocation
  wpc,            \* position inside wrapper
  wresult,        \* value the wrapper returned to its caller
  wexc,           \* exception the wrapper raised to its caller
  opexc,          \* exception raised by the last invocation of func
  \* ---- _calculate_relevancy_score(seller_info, keyword)
  seller_info,    \* the lead record (dict)
  keyword,        \* the search keyword
  score,          \* the value returned, NoScore before the call
  spc,            \* position: "start" | "scored"
  \* ---- the browser session (self.driver)
  window_handles,         \* driver.window_handles, in order of opening
  current_window_handle,  \* driver.current_window_handle
  nextHandle,             \* the handle the next opened window gets
  \* ---- run(), login() and search_product()
  pc,                 \* position in run / login / search_product
  wfunc,              \* the function the active wrapper wraps
  self_mobile_number, \* self.mobile_number
  mobile_number,      \* login's local mobile_number
  typed,              \* what login has sent to the mobile input field
  loginExecs,         \* history: executions of login's body
  searchExecs,        \* history: executions of search_product's body
  loginFail,          \* history: what made login return False
  searchFail,         \* history: what made search_product return False
  login_success,      \* run's local login_success
  search_success,     \* run's local search_success
  main_window_handle, \* search_product's local main_window_handle
  entryHandles,       \* history: window_handles at entry to search_product
  entryFocus,         \* history: current_window_handle at entry
  show_more_clicks,   \* clicks on "Show more results" in the running expansion loop
  \* ---- _extract_detailed_info_from_profile(seller_info, search_results_window_handle)
  epc,                          \* position in the call
  search_results_window_handle, \* the handle to return to
  old_handles,                  \* local old_handles
  new_window_handle,            \* local new_window_handle
  eexc,                         \* the exception propagating out of the try block
  preHandles,                   \* history: window_handles when the attempt began
  preInfo,                      \* history: seller_info when the attempt began
  enrichExecs,                  \* history: executions of the function body
  \* ---- one call of validate_phone or validate_email
  fn,             \* the function called
  arg,            \* its argument
  ret,            \* the value it returned
  fpc,            \* position: "start" | "done"
  \* ---- scrape_search_results(keyword, min_leads)
  leads,          \* self.leads
  min_leads,      \* the parameter min_leads
  page_num,       \* local page_num
  scpc,           \* position in scrape_search_results
  page_cards,     \* leads_to_process_from_current_page
  card_idx,       \* how many of page_cards the for loop has taken
  scrape_exc,     \* the exception that ended the pagination loop
  enrich_calls,   \* history: calls of _extract_detailed_info_from_profile
  score_calls,    \* history: calls of _calculate_relevancy_score
  next_clicks,    \* history: clicks on the "Next" control
  page_expansions, \* clicks on "Show more results" in the running expansion loop
  \* ---- export_to_csv(filename) and the end of run
  run_leads,      \* run's local `leads`
  csv_rows,       \* the rows written to the output file
  export_success, \* run's local export_success
  xpc,            \* position in run after scrape_search_results
  \* ---- what run and its callees leave behind
  run_calls,      \* history: the methods run has called, in order
  run_report,     \* the exception that reached run and the except clause that reported it
  quit_called,    \* "True" once driver.quit() has been executed
  current_url,    \* driver.current_url while login runs
  page_marker,    \* "True" when the page shows one of the logged-in texts
  login_steps,    \* history: <<step, outcome>> of the browser steps of the last login
  steps,          \* history: <<step, outcome>> of the browser steps of the running operation
  screenshots,    \* the files save_screenshot has written
  start_handles   \* history: window_handles at entry to scrape_search_results

retryVars == <<max_attempts, attempts, invocations, returnedAt, script, wpc, wresult, wexc, opexc>>
scoreVars == <<seller_info, keyword, score, spc>>
browserVars == <<window_handles, current_window_handle, nextHandle>>
runVars == <<pc, wfunc, self_mobile_number, mobile_number, typed, loginExecs, searchExecs,
             loginFail, searchFail, login_success, search_success, main_window_handle,
             entryHandles, entryFocus, show_more_clicks>>
enrichVars == <<epc, search_results_window_handle, old_handles, new_window_handle, eexc,
                preHandles, preInfo, enrichExecs>>
fnVars == <<fn, arg, ret, fpc>>
scrapeVars == <<leads, min_leads, page_num, scpc, page_cards, card_idx, scrape_exc,
                enrich_calls, score_calls, next_clicks, page_expansions>>
exportVars == <<run_leads, csv_rows, export_success, xpc>>
traceVars == <<run_calls, run_report, quit_called, current_url, page_marker, login_steps, steps,
               screenshots, start_handles>>
vars == <<retryVars, scoreVars, browserVars, runVars, enrichVars, fnVars, scrapeVars, exportVars,
          traceVars>>

Min(a, b) == IF a <= b THEN a ELSE b

---------------------------------------------------------------------------
(* Text helpers                                                            *)

\* str.lower() on the characters the model uses
LowerChar(c) ==
  CASE c = "A" -> "a"
    [] c = "B" -> "b"
    [] c = "S" -> "s"
    [] OTHER -> c

\* str.strip(): drop leading and trailing whitespace
Whitespace == {" ", "\t", "\n"}
RECURSIVE LStrip(_)
LStrip(s) == IF s # <<>> /\ Head(s) \in Whitespace THEN LStrip(Tail(s)) ELSE s
RECURSIVE RStrip(_)
RStrip(s) ==
  IF s # <<>> /\ s[Len(s)] \in Whitespace THEN RStrip(SubSeq(s, 1, Len(s) - 1)) ELSE s
Strip(s) == RStrip(LStrip(s))

Lower(s) == [i \in 1..Len(s) |-> LowerChar(s[i])]

\* Python's `sub in s`
Contains(s, sub) ==
  \E i \in 1..(Len(s) - Len(sub) + 1) : SubSeq(s, i, i + Len(sub) - 1) = sub

\* Python's s.count(sub): occurrences found scanning left to right, each
\* search resuming after the end of the previous match (non-overlapping)
RECURSIVE CountFrom(_, _, _)
CountFrom(s, sub, i) ==
  IF i + Len(sub) - 1 > Len(s) THEN 0
  ELSE IF SubSeq(s, i, i + Len(sub) - 1) = sub
       THEN 1 + CountFrom(s, sub, i + Len(sub))
       ELSE CountFrom(s, sub, i + 1)

Count(s, sub) == IF sub = <<>> THEN Len(s) + 1 ELSE CountFrom(s, sub, 1)

\* all sequences over alphabet A of length 0..n
SeqsUpTo(A, n) == UNION {[1..k -> A] : k \in 0..n}

---------------------------------------------------------------------------
(* retry: src/scraper.py lines 40-56                                       *)

MaxAttempts == 3   \* max_attempts ranges over 1..MaxAttempts

NoneVal == "None"
Unset == "unset"
NoExc == "no exception"
Exceptions == {"TimeoutException", "Exception"}
ReturnValues == {"True", "False"}
Outcomes == ReturnValues \cup Exceptions

\* line 50 evaluates func._name_ inside the f-string handed to
\* logging.warning; a Python function has __name__ but no attribute _name_
FuncHas_name_ == FALSE

\* the except block of wrapper (lines 48-54) entered with the local
\* `attempts` and the exception e: what it does next
WrapperExcept(att, maxatt, e) ==
  LET a == att + 1 IN                       \* line 49
  IF ~FuncHas_name_
  THEN [attempts |-> a, next |-> "raise", exc |-> "AttributeError"]  \* line 50
  ELSE IF a = maxatt                        \* lines 51-54: sleep, re-raise
       THEN [attempts |-> a, next |-> "raise", exc |-> e]
       ELSE [attempts |-> a, next |-> "loop", exc |-> NoExc]

ScriptLen == MaxAttempts + 1

RetryInit ==
  /\ max_attempts \in 1..MaxAttempts
  /\ script \in [1..ScriptLen -> Outcomes]
  /\ attempts = 0                           \* line 44
  /\ invocations = 0
  /\ returnedAt = 0
  /\ wpc = "loop"
  /\ wresult = NoneVal
  /\ wexc = NoExc
  /\ opexc = NoExc

RetryIdle ==
  /\ max_attempts = 0
  /\ script = <<>>
  /\ attempts = 0
  /\ invocations = 0
  /\ returnedAt = 0
  /\ wpc = "idle"
  /\ wresult = NoneVal
  /\ wexc = NoExc
  /\ opexc = NoExc

\* a variant of lines 45-47 that calls func without returning its value
RetryLoopNoReturn ==
  /\ wpc = "loop"
  /\ invocations < Len(script)
  /\ IF attempts < max_attempts
     THEN /\ invocations' = invocations + 1
          /\ IF script[invocations + 1] \in ReturnValues
             THEN /\ returnedAt' = (IF returnedAt = 0 THEN invocations + 1 ELSE returnedAt)
                  /\ wresult' = script[invocations + 1]
                  /\ UNCHANGED <<wpc, opexc>>
             ELSE /\ opexc' = script[invocations + 1]
                  /\ wpc' = "except"
                  /\ UNCHANGED <<returnedAt, wresult>>
     ELSE /\ wpc' = "done"
          /\ UNCHANGED <<invocations, returnedAt, wresult, opexc>>
  /\ UNCHANGED <<max_attempts, attempts, script, wexc, scoreVars, browserVars, runVars, enrichVars>>
  /\ UNCHANGED <<fnVars, scrapeVars, exportVars, traceVars>>

\* lines 45-47: the loop test and `return func(*args, **kwargs)`
RetryLoop ==
  /\ wpc = "loop"
  /\ invocations < Len(script)
  /\ IF attempts < max_attempts
     THEN /\ invocations' = invocations + 1
          /\ IF script[invocations + 1] \in ReturnValues
             THEN /\ returnedAt' = invocations + 1
                  /\ wresult' = script[invocations + 1]
                  /\ wpc' = "done"
                  /\ UNCHANGED opexc
             ELSE /\ opexc' = script[invocations + 1]
                  /\ wpc' = "except"
                  /\ UNCHANGED <<returnedAt, wresult>>
     ELSE \* the loop ends without a return: wrapper returns None
          /\ wpc' = "done"
          /\ UNCHANGED <<invocations, returnedAt, wresult, opexc>>
  /\ UNCHANGED <<max_attempts, attempts, script, wexc, scoreVars, browserVars, runVars, enrichVars>>
  /\ UNCHANGED <<fnVars, scrapeVars, exportVars, traceVars>>

\* lines 48-54: the except block
RetryExcept ==
  /\ wpc = "except"
  /\ LET h == WrapperExcept(attempts, max_attempts, opexc) IN
       /\ attempts' = h.attempts
       /\ IF h.next = "raise"
          THEN wexc' = h.exc /\ wpc' = "done"
          ELSE wexc' = wexc /\ wpc' = "loop"
  /\ UNCHANGED <<max_attempts, invocations, returnedAt, script, wresult, opexc, scoreVars, browserVars, runVars, enrichVars>>
  /\ UNCHANGED <<fnVars, scrapeVars, exportVars, traceVars>>

---------------------------------------------------------------------------
(* _calculate_relevancy_score: src/scraper.py lines 630-666                *)

MaxDescLen == 6    \* longest product description drawn

DescAlphabet == {"A", "b"}
KwAlphabet == {"a", "B"}
\* the keywords drawn: one or two characters, in the other case than the texts
Keywords == [1..1 -> KwAlphabet] \cup [1..2 -> KwAlphabet]
\* the company names drawn
CompanyNames == {<<>>} \cup [1..1 -> DescAlphabet]
NoScore == -1

\* fuzz.partial_ratio returns an integer 0..100 (spec.md section 6); the
\* library is not part of the repository, so its result is any such value
PartialRatioValues == 0..100

\* int(ratio * 0.6) and int(ratio * 0.3) for an integer ratio 0..100:
\* truncation of the float product, which equals the floor of the exact
\* product for every ratio in that range
IntTimesTenths(ratio, tenths) == (ratio * tenths) \div 10

\* "Not Listed"
NotListed == <<"N", "o", "t", " ", "L", "i", "s", "t", "e", "d">>

\* the record _extract_seller_info_from_listing starts from (lines 370-380)
EmptyInfo ==
  [CompanyName |-> <<>>, CompanyProfileURL |-> <<>>, ProductTitle |-> <<>>,
   ProductCatalogURL |-> <<>>, Price |-> NotListed, Address |-> <<>>,
   PhoneNumber |-> <<>>, Email |-> <<>>, RelevancyScore |-> 0]

\* a variant of lines 642-644 that counts only the occurrences after the first
DescTermsAdditional(info, kw) ==
  LET keyword_lower == Lower(kw)
      product_desc_lower == Lower(info.ProductTitle)
  IN IF product_desc_lower = <<>> THEN {0}
     ELSE IF Contains(product_desc_lower, keyword_lower)
          THEN {60 + Min(10, (Count(product_desc_lower, keyword_lower) - 1) * 2)}
          ELSE {IntTimesTenths(r, 6) : r \in PartialRatioValues}

\* a variant of lines 638-642 that compares without lower()
DescTermsCaseSensitive(info, kw) ==
  IF info.ProductTitle = <<>> THEN {0}
  ELSE IF Contains(info.ProductTitle, kw)
       THEN {60 + Min(10, Count(info.ProductTitle, kw) * 2)}
       ELSE {IntTimesTenths(r, 6) : r \in PartialRatioValues}

\* lines 640-647: the values the description term can take
DescTerms(info, kw) ==
  LET keyword_lower == Lower(kw)
      product_desc_lower == Lower(info.ProductTitle)
  IN IF product_desc_lower = <<>> THEN {0}
     ELSE IF Contains(product_desc_lower, keyword_lower)
          THEN {60 + Min(10, Count(product_desc_lower, keyword_lower) * 2)}
          ELSE {IntTimesTenths(r, 6) : r \in PartialRatioValues}

\* a variant of lines 649-655 without the substring test: always the fuzzy term
NameTermsFuzzyOnly(info, kw) ==
  IF Lower(info.CompanyName) = <<>> THEN {0}
  ELSE {IntTimesTenths(r, 3) : r \in PartialRatioValues}

\* lines 649-655: the values the company-name term can take
NameTerms(info, kw) ==
  LET keyword_lower == Lower(kw)
      company_name_lower == Lower(info.CompanyName)
  IN IF company_name_lower = <<>> THEN {0}
     ELSE IF Contains(company_name_lower, keyword_lower)
          THEN {30}
          ELSE {IntTimesTenths(r, 3) : r \in PartialRatioValues}

\* lines 657-664
Bonuses(info) ==
    (IF info.PhoneNumber # <<>> THEN 3 ELSE 0)
  + (IF info.Email # <<>> THEN 2 ELSE 0)
  + (IF info.Address # <<>> THEN 5 ELSE 0)
  + (IF info.ProductCatalogURL # <<>> THEN 5 ELSE 0)

\* a variant of line 666 that returns the sum without the cap
RelevancyScoresUncapped(info, kw) ==
  {d + n + Bonuses(info) : d \in DescTerms(info, kw), n \in NameTerms(info, kw)}

\* the values _calculate_relevancy_score can return (line 666)
RelevancyScores(info, kw) ==
  {Min(100, d + n + Bonuses(info)) : d \in DescTerms(info, kw), n \in NameTerms(info, kw)}

Present == {<<>>, <<"x">>}

ScoreInit ==
  /\ keyword \in Keywords
  /\ \E desc \in SeqsUpTo(DescAlphabet, MaxDescLen),
        name \in CompanyNames,
        phone \in Present, email \in Present, addr \in Present, cat \in Present :
       seller_info = [EmptyInfo EXCEPT !.ProductTitle = desc, !.CompanyName = name,
                        !.PhoneNumber = phone, !.Email = email,
                        !.Address = addr, !.ProductCatalogURL = cat]
  /\ score = NoScore
  /\ spc = "start"

ScoreIdle ==
  /\ keyword = <<>>
  /\ seller_info = EmptyInfo
  /\ score = NoScore
  /\ spc = "idle"

CalculateRelevancyScore ==
  /\ spc = "start"
  /\ score' \in RelevancyScores(seller_info, keyword)
  /\ spc' = "scored"
  /\ UNCHANGED <<seller_info, keyword, retryVars, browserVars, runVars, enrichVars>>
  /\ UNCHANGED <<fnVars, scrapeVars, exportVars, traceVars>>

---------------------------------------------------------------------------
(* validate_phone: src/scraper.py lines 69-78                              *)

DigitChars == {"0", "1", "2", "3", "4", "5", "6", "7", "8", "9"}
IsDigit(c) == c \in DigitChars
\* ''.join(filter(str.isdigit, phone))
DigitsOf(s) == SelectSeq(s, IsDigit)
StartsWith(s, prefix) == Len(s) >= Len(prefix) /\ SubSeq(s, 1, Len(prefix)) = prefix
\* s[-n:]
LastN(s, n) == SubSeq(s, Len(s) - n + 1, Len(s))

\* Python's None where a text is expected
NoText == <<"None">>
Truthy(text) == text # NoText /\ text # <<>>

\* a variant of lines 76-77 that leaves a prefixed number as it came
validate_phoneKeepPrefix(phone) ==
  IF ~Truthy(phone) THEN <<>>
  ELSE IF Len(DigitsOf(phone)) = 10 THEN DigitsOf(phone) ELSE phone

\* a variant of line 78 that returns the digits found instead of the input
validate_phoneDigitsOnly(phone) ==
  IF ~Truthy(phone) THEN <<>>
  ELSE LET digits == DigitsOf(phone) IN
       IF Len(digits) \in {11, 12}
          /\ (StartsWith(digits, <<"9", "1">>) \/ StartsWith(digits, <<"0">>))
       THEN LastN(digits, 10)
       ELSE digits

validate_phone(phone) ==
  IF ~Truthy(phone) THEN <<>>
  ELSE LET digits == DigitsOf(phone) IN
       IF Len(digits) = 10 THEN digits
       ELSE IF Len(digits) \in {11, 12}
               /\ (StartsWith(digits, <<"9", "1">>) \/ StartsWith(digits, <<"0">>))
            THEN LastN(digits, 10)
            ELSE phone

\* the identifiers a user configures or types
Phone10 == <<"9", "8", "7", "6", "5", "4", "3", "2", "1", "0">>
Phone91 == <<"9", "1", "9", "8", "7", "6", "5", "4", "3", "2", "1", "0">>
Phone0 == <<"0", "9", "8", "7", "6", "5", "4", "3", "2", "1", "0">>
PhoneSpaced == <<"9", "8", "7", "6", "5", " ", "4", "3", "2", "1", "0">>
PhoneNineAndDash == <<"9", "8", "7", "6", "5", "-", "4", "3", "2", "1">>
PhoneLetters == <<"a", "b", "c", "d", "e", "f", "g", "h", "i", "j">>
PhoneShort == <<"1", "2", "3", "4", "5">>
Phone13 == <<"9", "1", "9", "8", "7", "6", "5", "4", "3", "2", "1", "0", "1">>
Phone11Other == <<"5", "9", "8", "7", "6", "5", "4", "3", "2", "1", "0">>
PhoneInputs == {<<>>, Phone10, Phone91, Phone0, PhoneSpaced, PhoneNineAndDash,
                PhoneLetters, PhoneShort, Phone13, Phone11Other}

---------------------------------------------------------------------------
(* The browser session                                                     *)

NoHandle == 0
Range(f) == {f[i] : i \in DOMAIN f}
\* driver.close() on the window h
RemoveHandle(handles, h) == SelectSeq(handles, LAMBDA x : x # h)

\* what a bounded wait, a look-up or a click can end with
StepOutcomes == {"ok", "TimeoutException", "NoSuchElementException", "Exception"}

MaxShowMore == 2   \* the site presents "Show more results" at most this often

\* a variant of lines 329-334 whose except clauses catch a timeout only
ShowMoreBreaksOnTimeout(o) == o = "TimeoutException"

\* lines 329-334 and 706-711: every exception of the wait or the click
\* leaves the expansion loop
ShowMoreBreaks(o) == o # "ok"

LoginMaxAttempts == 3
SearchMaxAttempts == 3

---------------------------------------------------------------------------
(* run, login, search_product: src/scraper.py lines 145-357, 852-919       *)

RunInit ==
  /\ window_handles = <<1>>                 \* webdriver.Chrome starts with one window
  /\ current_window_handle = 1
  /\ nextHandle = 2
  /\ pc = "run_login"
  /\ wfunc = NoneVal
  /\ self_mobile_number \in {NoText} \cup PhoneInputs
  /\ mobile_number = <<>>
  /\ typed = NoText
  /\ loginExecs = 0
  /\ searchExecs = 0
  /\ loginFail = NoExc
  /\ searchFail = NoExc
  /\ login_success = Unset
  /\ search_success = Unset
  /\ main_window_handle = NoHandle
  /\ entryHandles = <<>>
  /\ entryFocus = NoHandle
  /\ show_more_clicks = 0

BrowserIdle ==
  /\ window_handles = <<>>
  /\ current_window_handle = NoHandle
  /\ nextHandle = 1

TraceIdle ==
  /\ run_calls = <<>>
  /\ run_report = [exc |-> NoExc, clause |-> "none"]
  /\ quit_called = "False"
  /\ current_url = <<>>
  /\ page_marker = "False"
  /\ login_steps = <<>>
  /\ steps = <<>>
  /\ screenshots = {}
  /\ start_handles = <<>>

RunIdle ==
  /\ pc = "idle"
  /\ wfunc = NoneVal
  /\ self_mobile_number = NoText
  /\ mobile_number = <<>>
  /\ typed = NoText
  /\ loginExecs = 0
  /\ searchExecs = 0
  /\ loginFail = NoExc
  /\ searchFail = NoExc
  /\ login_success = Unset
  /\ search_success = Unset
  /\ main_window_handle = NoHandle
  /\ entryHandles = <<>>
  /\ entryFocus = NoHandle
  /\ show_more_clicks = 0

wrapVars == <<max_attempts, attempts>>
retryRest == <<invocations, returnedAt, script, wpc, wresult, wexc, opexc>>

\* run line 877: self.login() enters wrapper (line 44)
RunCallLogin ==
  /\ pc = "run_login"
  /\ wfunc' = "login"
  /\ max_attempts' = LoginMaxAttempts
  /\ attempts' = 0
  /\ pc' = "wrapper_loop"
  /\ run_calls' = Append(run_calls, "login")
  /\ UNCHANGED <<retryRest, scoreVars, enrichVars, browserVars, self_mobile_number, mobile_number, typed,
                 loginExecs, searchExecs, loginFail, searchFail, login_success, search_success,
                 main_window_handle, entryHandles, entryFocus, show_more_clicks>>
  /\ UNCHANGED <<fnVars, scrapeVars, exportVars, run_report, quit_called, current_url,
                 page_marker, login_steps, steps, screenshots, start_handles>>

\* wrapper lines 45-47 around login and search_product: test the loop
\* condition and invoke the function (search_product: line 238)
WrapperInvoke ==
  /\ pc = "wrapper_loop"
  /\ IF attempts < max_attempts
     THEN IF wfunc = "login"
          THEN /\ loginExecs' = loginExecs + 1
               /\ pc' = "login_navigate"
               /\ login_steps' = <<>>
               /\ UNCHANGED <<searchExecs, main_window_handle, entryHandles, entryFocus,
                              login_success, search_success, steps>>
          ELSE /\ searchExecs' = searchExecs + 1
               /\ main_window_handle' = current_window_handle
               /\ entryHandles' = window_handles
               /\ entryFocus' = current_window_handle
               /\ pc' = "search_keyword"
               /\ steps' = <<>>
               /\ UNCHANGED <<loginExecs, login_success, search_success, login_steps>>
     ELSE \* the loop ends without a return: wrapper returns None
          /\ IF wfunc = "login"
             THEN login_success' = NoneVal /\ UNCHANGED search_success
             ELSE search_success' = NoneVal /\ UNCHANGED login_success
          /\ pc' = "run_close"
          /\ UNCHANGED <<loginExecs, searchExecs, main_window_handle, entryHandles, entryFocus,
                         login_steps, steps>>
  /\ UNCHANGED <<retryVars, scoreVars, enrichVars, browserVars, wfunc, self_mobile_number, mobile_number,
                 typed, loginFail, searchFail, show_more_clicks>>
  /\ UNCHANGED <<fnVars, scrapeVars, exportVars, run_calls, run_report, quit_called,
                 current_url, page_marker, screenshots, start_handles>>

\* the addresses the browser can be at while login runs
Https == <<"h", "t", "t", "p", "s", ":", "/", "/">>
IndiamartCom == <<"i", "n", "d", "i", "a", "m", "a", "r", "t", ".", "c", "o", "m">>
\* line 153
BuyerHost == <<"b", "u", "y", "e", "r", ".">> \o IndiamartCom
\* line 209
BuyerHostSlash == BuyerHost \o <<"/">>
\* line 151
LoginPageUrl == Https \o BuyerHost \o <<"/">>
\* line 98
BaseUrl == Https \o <<"w", "w", "w", ".">> \o IndiamartCom \o <<"/">>
\* a page of the buyer site behind the login
AccountUrl == LoginPageUrl \o <<"m", "y">>

\* EC.url_contains
url_contains(url, part) == Contains(url, part)

\* where driver.get(line 151) can end up
LandingUrls == {LoginPageUrl, BaseUrl}

\* what the site shows after "Verify OTP": the login form again (the code
\* was rejected), the account pages, or another site of the company
PagesAfterVerify ==
  { [url |-> LoginPageUrl, marker |-> "False"],
    [url |-> AccountUrl, marker |-> "True"],
    [url |-> BaseUrl, marker |-> "False"] }

\* the outcome of a bounded wait for `condition`, which the browser may
\* also fail with an error of its own
WaitOutcomes(condition) ==
  {IF condition THEN "ok" ELSE "TimeoutException", "Exception"}

\* lines 207-212: EC.any_of(url_contains(...), presence_of_element_located(...))
LoginSignal(url, marker) == url_contains(url, BuyerHostSlash) \/ marker = "True"

\* a variant of lines 218, 222, 226 that saves nothing
LoginScreenshotsNone(e) == {}

\* lines 218, 222, 226: the file the handler saves
LoginScreenshots(e) ==
  CASE e = "TimeoutException" -> {<<"login_timeout_error.png", 0>>}
    [] e = "NoSuchElementException" -> {<<"login_elements_missing.png", 0>>}
    [] OTHER -> {<<"login_unexpected_error.png", 0>>}

\* a variant of line 879 that goes on whatever login returned
RunProceedsAlways(value) == TRUE

\* line 879: `if login_success:`
RunProceeds(value) == value = "True"

\* login returns `value`; wrapper returns it (line 47); run branches on it
\* (lines 879, 907)
LoginReturns(value, cause) ==
  /\ login_success' = value
  /\ loginFail' = cause
  /\ mobile_number' = <<>>
  /\ pc' = IF RunProceeds(value) THEN "run_search" ELSE "run_close"

\* login lines 216-227: log, screenshot, return False
LoginHandler(e) ==
  /\ LoginReturns("False", e)
  /\ screenshots' = screenshots \cup LoginScreenshots(e)

loginFrame == <<retryVars, scoreVars, enrichVars, browserVars, wfunc, self_mobile_number, loginExecs,
                searchExecs, searchFail, search_success, main_window_handle, entryHandles,
                entryFocus, show_more_clicks, fnVars, scrapeVars, exportVars, run_calls,
                run_report, quit_called, steps, start_handles>>

\* a step of login's try block ends with outcome o: go on, or to a handler
LoginStep(name, o, next) ==
  /\ login_steps' = Append(login_steps, <<name, o>>)
  /\ IF o = "ok"
     THEN /\ pc' = next
          /\ UNCHANGED <<login_success, loginFail, mobile_number, screenshots>>
     ELSE LoginHandler(o)

\* lines 151-155: open the login page and wait for its URL
LoginNavigate ==
  /\ pc = "login_navigate"
  /\ \E u \in LandingUrls :
       /\ current_url' = u
       /\ \E o \in WaitOutcomes(url_contains(u, BuyerHost)) : LoginStep("navigate", o, "login_number")
  /\ page_marker' = "False"
  /\ UNCHANGED <<loginFrame, typed>>

\* line 164, negated: the number is accepted
LoginNumberValid(num) == ~(num = <<>> \/ Len(num) # 10)

\* lines 157-167: take the configured number or ask for one, validate it
LoginNumber ==
  /\ pc = "login_number"
  /\ \E entered \in PhoneInputs :
       LET raw == IF Truthy(self_mobile_number) THEN self_mobile_number ELSE entered
           num == validate_phone(raw)
       IN IF LoginNumberValid(num)
          THEN /\ mobile_number' = num
               /\ pc' = "login_enter_number"
               /\ UNCHANGED <<login_success, loginFail>>
          ELSE LoginReturns("False", "invalid number")
  /\ UNCHANGED <<loginFrame, typed, current_url, page_marker, login_steps, screenshots>>

\* lines 171-176: wait for the mobile input and type the number
LoginEnterNumber ==
  /\ pc = "login_enter_number"
  /\ \E o \in StepOutcomes :
       /\ LoginStep("enter_number", o, "login_send_otp")
       /\ typed' = IF o = "ok" THEN mobile_number ELSE typed
  /\ UNCHANGED <<loginFrame, current_url, page_marker>>

\* lines 180-185: wait for "Send OTP" and click it
LoginSendOtp ==
  /\ pc = "login_send_otp"
  /\ \E o \in StepOutcomes : LoginStep("send_otp", o, "login_enter_otp")
  /\ UNCHANGED <<loginFrame, typed, current_url, page_marker>>

\* lines 188-196: ask for the OTP, wait for its input and type it
LoginEnterOtp ==
  /\ pc = "login_enter_otp"
  /\ \E o \in StepOutcomes : LoginStep("enter_otp", o, "login_verify_otp")
  /\ UNCHANGED <<loginFrame, typed, current_url, page_marker>>

\* lines 200-204: wait for "Verify OTP" and click it; the site answers the
\* click with a page
LoginVerifyOtp ==
  /\ pc = "login_verify_otp"
  /\ \E o \in StepOutcomes :
       /\ LoginStep("verify_otp", o, "login_wait_success")
       /\ IF o = "ok"
          THEN \E page \in PagesAfterVerify :
                 current_url' = page.url /\ page_marker' = page.marker
          ELSE UNCHANGED <<current_url, page_marker>>
  /\ UNCHANGED <<loginFrame, typed>>

\* lines 207-214: wait for a logged-in signal, return True
LoginWaitSuccess ==
  /\ pc = "login_wait_success"
  /\ \E o \in WaitOutcomes(LoginSignal(current_url, page_marker)) :
       /\ login_steps' = Append(login_steps, <<"wait_success", o>>)
       /\ IF o = "ok"
          THEN LoginReturns("True", NoExc) /\ UNCHANGED screenshots
          ELSE LoginHandler(o)
  /\ UNCHANGED <<loginFrame, typed, current_url, page_marker>>

\* run line 888: self.search_product(keyword) enters wrapper (line 44)
RunCallSearch ==
  /\ pc = "run_search"
  /\ wfunc' = "search_product"
  /\ max_attempts' = SearchMaxAttempts
  /\ attempts' = 0
  /\ pc' = "wrapper_loop"
  /\ run_calls' = Append(run_calls, "search_product")
  /\ UNCHANGED <<retryRest, scoreVars, enrichVars, browserVars, self_mobile_number, mobile_number, typed,
                 loginExecs, searchExecs, loginFail, searchFail, login_success, search_success,
                 main_window_handle, entryHandles, entryFocus, show_more_clicks>>
  /\ UNCHANGED <<fnVars, scrapeVars, exportVars, run_report, quit_called, current_url,
                 page_marker, login_steps, steps, screenshots, start_handles>>

\* a variant of lines 340-345 that only switches back
SearchCleanupNoClose(handles, current, main) ==
  [handles |-> handles, current |-> main]

\* lines 340-345 (and 351-356): close the new tab if the driver is on it,
\* then switch to main_window_handle
SearchCleanup(handles, current, main) ==
  LET left == IF Len(handles) > 1 /\ current # main
              THEN RemoveHandle(handles, current)
              ELSE handles
  IN [handles |-> left, current |-> main]

\* lines 338, 349: the file the handler saves
SearchScreenshots(e) ==
  IF e = "TimeoutException" THEN {<<"search_timeout_error.png", 0>>}
  ELSE {<<"search_error.png", 0>>}

\* search_product lines 336-357: log, screenshot, clean up, return False
SearchHandler(e) ==
  LET c == SearchCleanup(window_handles, current_window_handle, main_window_handle) IN
  /\ window_handles' = c.handles
  /\ current_window_handle' = c.current
  /\ search_success' = "False"
  /\ searchFail' = e
  /\ screenshots' = screenshots \cup SearchScreenshots(e)
  /\ pc' = "run_close"

searchFrame == <<retryVars, scoreVars, enrichVars, wfunc, self_mobile_number, mobile_number, typed,
                 loginExecs, searchExecs, loginFail, login_success, main_window_handle,
                 entryHandles, entryFocus, fnVars, scrapeVars, exportVars, run_calls,
                 run_report, quit_called, current_url, page_marker, login_steps,
                 start_handles>>

\* a step of search_product's try block ends with outcome o
SearchStep(name, o, next) ==
  /\ steps' = Append(steps, <<name, o>>)
  /\ IF o = "ok"
     THEN /\ pc' = next
          /\ UNCHANGED <<search_success, searchFail, screenshots>>
     ELSE SearchHandler(o)

\* lines 241-247: wait for the search box, clear it, type the keyword
SearchEnterKeyword ==
  /\ pc = "search_keyword"
  /\ \E o \in StepOutcomes :
       /\ SearchStep("keyword", o, "search_first_button")
       /\ IF o = "ok" THEN UNCHANGED <<window_handles, current_window_handle>> ELSE TRUE
  /\ UNCHANGED <<searchFrame, nextHandle, show_more_clicks>>

\* lines 250-256: wait for the first search button and click it
SearchClickFirst ==
  /\ pc = "search_first_button"
  /\ \E o \in StepOutcomes :
       /\ SearchStep("first_button", o, "search_second_button")
       /\ IF o = "ok" THEN UNCHANGED <<window_handles, current_window_handle>> ELSE TRUE
  /\ UNCHANGED <<searchFrame, nextHandle, show_more_clicks>>

\* lines 260-264: wait for the second search button and click it; the site
\* answers the click by opening the results in a new window, or does not
SearchClickSecond ==
  /\ pc = "search_second_button"
  /\ \E o \in StepOutcomes :
       /\ SearchStep("second_button", o, "search_wait_window")
       /\ IF o = "ok"
          THEN /\ \E opens \in BOOLEAN :
                    IF opens
                    THEN /\ window_handles' = Append(window_handles, nextHandle)
                         /\ nextHandle' = nextHandle + 1
                    ELSE UNCHANGED <<window_handles, nextHandle>>
               /\ UNCHANGED current_window_handle
          ELSE UNCHANGED nextHandle
  /\ UNCHANGED <<searchFrame, show_more_clicks>>

\* a variant of line 271 that does not leave out main_window_handle
OtherWindowsAll(handles, main) == handles

\* line 271: the handles that are not main_window_handle
OtherWindows(handles, main) == SelectSeq(handles, LAMBDA h : h # main)

\* lines 268-273: wait until there are exactly 2 windows, switch to the
\* one that is not main_window_handle
SearchSwitchToNew ==
  /\ pc = "search_wait_window"
  /\ LET others == OtherWindows(window_handles, main_window_handle)
         o == IF Len(window_handles) # 2 THEN "TimeoutException"
              ELSE IF others = <<>> THEN "Exception"       \* IndexError on [0]
              ELSE "ok"
     IN /\ SearchStep("new_window", o, "search_wait_results")
        /\ IF o = "ok"
           THEN current_window_handle' = others[1] /\ UNCHANGED window_handles
           ELSE TRUE
  /\ UNCHANGED <<searchFrame, nextHandle, show_more_clicks>>

\* lines 277-280: wait for the listing container on the new window
SearchWaitResults ==
  /\ pc = "search_wait_results"
  /\ \E o \in StepOutcomes :
       /\ SearchStep("results", o, "search_city")
       /\ IF o = "ok" THEN UNCHANGED <<window_handles, current_window_handle>> ELSE TRUE
  /\ UNCHANGED <<searchFrame, nextHandle, show_more_clicks>>

\* a variant of lines 307-312 without the last except clause
CityFilterCaughtNarrow(o) == o \in {"TimeoutException", "NoSuchElementException"}

\* lines 307-312: the except clauses around the city filter catch every
\* exception
CityFilterCaught(o) == TRUE

\* lines 283-313: try to set the city to "All India"; every failure is
\* caught and logged
SearchSetCity ==
  /\ pc = "search_city"
  /\ \E o \in StepOutcomes :
       IF o = "ok" \/ CityFilterCaught(o)
       THEN /\ steps' = Append(steps, <<"city", o>>)
            /\ pc' = "search_show_more"
            /\ UNCHANGED <<browserVars, search_success, searchFail, screenshots>>
       ELSE /\ steps' = Append(steps, <<"city", o>>)
            /\ SearchHandler(o)
            /\ UNCHANGED nextHandle
  /\ UNCHANGED <<searchFrame, show_more_clicks>>

\* lines 318-335: click "Show more results" while a 5 s wait finds it
\* clickable; on the first wait that fails leave the loop and return True
SearchShowMore ==
  /\ pc = "search_show_more"
  /\ \E o \in StepOutcomes :
       /\ steps' = Append(steps, <<"show_more", o>>)
       /\ IF ShowMoreBreaks(o)
          THEN /\ search_success' = "True"
               /\ searchFail' = NoExc
               /\ pc' = "run_scrape"
               /\ show_more_clicks' = 0
          ELSE /\ show_more_clicks < MaxShowMore
               /\ show_more_clicks' = show_more_clicks + 1
               /\ UNCHANGED <<pc, search_success, searchFail>>
  /\ UNCHANGED <<searchFrame, browserVars, screenshots>>

\* a variant of lines 831-839 that leaves the extra tabs open
CloseExtraTabsNone(handles) == handles

\* lines 831-839: every handle after the first is switched to and closed
CloseExtraTabs(handles) == IF Len(handles) > 1 THEN <<handles[1]>> ELSE handles

\* run line 919 -> close(), lines 828-839: close every window but the first
RunClose ==
  /\ pc = "run_close"
  /\ run_calls' = Append(run_calls, "close")
  /\ window_handles' = CloseExtraTabs(window_handles)
  /\ current_window_handle' = IF Len(window_handles) > 1 THEN NoHandle ELSE current_window_handle
  /\ pc' = "run_quit"
  /\ UNCHANGED <<retryVars, scoreVars, enrichVars, nextHandle, wfunc, self_mobile_number, mobile_number,
                 typed, loginExecs, searchExecs, loginFail, searchFail, login_success,
                 search_success, main_window_handle, entryHandles, entryFocus, show_more_clicks>>
  /\ UNCHANGED <<fnVars, scrapeVars, exportVars, run_report, quit_called, current_url,
                 page_marker, login_steps, steps, screenshots, start_handles>>

\* close(), lines 842-845: switch to the first window and quit the browser
RunCloseQuit ==
  /\ pc = "run_quit"
  /\ window_handles' = <<>>
  /\ current_window_handle' = NoHandle
  /\ quit_called' = "True"
  /\ pc' = "run_done"
  /\ UNCHANGED <<retryVars, scoreVars, enrichVars, nextHandle, wfunc, self_mobile_number, mobile_number,
                 typed, loginExecs, searchExecs, loginFail, searchFail, login_success,
                 search_success, main_window_handle, entryHandles, entryFocus, show_more_clicks>>
  /\ UNCHANGED <<fnVars, scrapeVars, exportVars, run_calls, run_report, current_url,
                 page_marker, login_steps, steps, screenshots, start_handles>>

---------------------------------------------------------------------------
(* validate_email: src/scraper.py lines 80-87                              *)

\* email.split('@')[1] for a text that contains "@": what lies between
\* the first "@" and the next one (or the end)
RECURSIVE UpToAt(_)
UpToAt(s) == IF s = <<>> \/ Head(s) = "@" THEN <<>> ELSE <<Head(s)>> \o UpToAt(Tail(s))
RECURSIVE AfterFirstAt(_)
AfterFirstAt(s) == IF Head(s) = "@" THEN Tail(s) ELSE AfterFirstAt(Tail(s))
SplitAtSecond(email) == UpToAt(AfterFirstAt(email))

\* a variant of line 86 that lowercases without trimming
validate_emailNoStrip(email) ==
  IF ~Truthy(email) THEN <<>>
  ELSE IF Contains(email, <<"@">>) /\ Contains(SplitAtSecond(email), <<".">>)
       THEN Lower(email)
       ELSE <<>>

validate_email(email) ==
  IF ~Truthy(email) THEN <<>>
  ELSE IF Contains(email, <<"@">>) /\ Contains(SplitAtSecond(email), <<".">>)
       THEN Lower(Strip(email))
       ELSE <<>>

---------------------------------------------------------------------------
(* _extract_detailed_info_from_profile: src/scraper.py lines 439-627       *)

EnrichMaxAttempts == 2

\* what the profile page shows, as element.text.strip() gives it
ProfileUrl == <<"u">>
TitleTexts == {<<>>, <<"A", "b">>}
PriceTexts == {<<>>, <<"9">>}
NameTexts == {<<>>, <<"B">>}
AddressTexts == {<<>>, <<"c">>}
RevealedPhones == {Phone91, PhoneShort}
MailtoTexts == {<<"S", "@", "a", ".", "c">>, <<"a", "@", "b">>}
CatalogHrefs == {<<>>, <<"p">>}

\* a variant of line 448 that does not ask for a profile reference
NeedsProfileVisitAnyMissing(info) ==
  ~Truthy(info.PhoneNumber) \/ ~Truthy(info.Email) \/ ~Truthy(info.ProductCatalogURL)

\* line 448
NeedsProfileVisit(info) ==
  /\ (~Truthy(info.PhoneNumber) \/ ~Truthy(info.Email) \/ ~Truthy(info.ProductCatalogURL))
  /\ Truthy(info.CompanyProfileURL)

EnrichIdle ==
  /\ epc = "idle"
  /\ search_results_window_handle = NoHandle
  /\ old_handles = <<>>
  /\ new_window_handle = NoHandle
  /\ eexc = NoExc
  /\ preHandles = <<>>
  /\ preInfo = EmptyInfo
  /\ enrichExecs = 0

\* the call as scrape_search_results makes it (line 746): the driver is on
\* the results window, whose handle is passed in
EnrichInit ==
  /\ \E title \in {<<>>, <<"t">>}, price \in {NotListed, <<"5">>}, name \in {<<>>, <<"n">>},
        addr \in {<<>>, <<"d">>}, phone \in {<<>>, Phone10}, email \in {<<>>, <<"e", "@", "f", ".", "g">>},
        cat \in {<<>>, <<"k">>}, url \in {NoText, <<>>, ProfileUrl} :
       seller_info = [EmptyInfo EXCEPT !.ProductTitle = title, !.Price = price,
                        !.CompanyName = name, !.Address = addr, !.PhoneNumber = phone,
                        !.Email = email, !.ProductCatalogURL = cat, !.CompanyProfileURL = url]
  /\ keyword = <<>>
  /\ score = NoScore
  /\ spc = "idle"
  /\ window_handles = <<1, 2>>
  /\ current_window_handle = 2
  /\ nextHandle = 3
  /\ epc = "call"
  /\ search_results_window_handle = 2
  /\ old_handles = <<>>
  /\ new_window_handle = NoHandle
  /\ eexc = NoExc
  /\ preHandles = <<>>
  /\ preInfo = EmptyInfo
  /\ enrichExecs = 0

enrichFrame == <<retryRest, keyword, score, spc, runVars>>

\* line 746: the call enters wrapper (line 44)
EnrichCall ==
  /\ epc = "call"
  /\ max_attempts' = EnrichMaxAttempts
  /\ attempts' = 0
  /\ epc' = "wrapper_loop"
  /\ UNCHANGED <<enrichFrame, browserVars, seller_info, search_results_window_handle,
                 old_handles, new_window_handle, eexc, preHandles, preInfo, enrichExecs>>
  /\ UNCHANGED <<fnVars, scrapeVars, exportVars, traceVars>>

\* wrapper lines 45-47 and function lines 448-450, 626-627: invoke the
\* function, which visits the profile only if something is missing
EnrichInvoke ==
  /\ epc = "wrapper_loop"
  /\ IF attempts < max_attempts
     THEN /\ enrichExecs' = enrichExecs + 1
          /\ preHandles' = window_handles
          /\ preInfo' = seller_info
          /\ new_window_handle' = NoHandle
          /\ eexc' = NoExc
          /\ epc' = IF NeedsProfileVisit(seller_info) THEN "open" ELSE "returned"
     ELSE /\ epc' = "returned"
          /\ UNCHANGED <<enrichExecs, preHandles, preInfo, new_window_handle, eexc>>
  /\ UNCHANGED <<enrichFrame, wrapVars, browserVars, seller_info,
                 search_results_window_handle, old_handles>>
  /\ UNCHANGED <<fnVars, scrapeVars, exportVars, traceVars>>

\* an exception leaves the try block for the except clauses
EnrichRaise(e) == eexc' = e /\ epc' = "except"

\* lines 454-455: remember the handles, ask the browser to open the profile
EnrichOpenWindow ==
  /\ epc = "open"
  /\ old_handles' = window_handles
  /\ \E o \in {"opened", "not opened", "WebDriverException"} :
       CASE o = "opened" ->
              /\ window_handles' = Append(window_handles, nextHandle)
              /\ nextHandle' = nextHandle + 1
              /\ epc' = "wait_window"
              /\ UNCHANGED eexc
         [] o = "not opened" ->
              /\ epc' = "wait_window"
              /\ UNCHANGED <<window_handles, nextHandle, eexc>>
         [] OTHER ->
              /\ EnrichRaise(o)
              /\ UNCHANGED <<window_handles, nextHandle>>
  /\ UNCHANGED <<enrichFrame, wrapVars, current_window_handle, seller_info,
                 search_results_window_handle, new_window_handle, preHandles, preInfo,
                 enrichExecs>>
  /\ UNCHANGED <<fnVars, scrapeVars, exportVars, traceVars>>

\* lines 458-467, 594-596: wait for a handle count above len(old_handles),
\* take the first handle not in old_handles and switch to it
EnrichSwitchToNew ==
  /\ epc = "wait_window"
  /\ IF Len(window_handles) > Len(old_handles)
     THEN LET fresh == SelectSeq(window_handles, LAMBDA h : h \notin Range(old_handles)) IN
          IF fresh # <<>>
          THEN /\ new_window_handle' = fresh[1]
               /\ current_window_handle' = fresh[1]
               /\ epc' = "wait_body"
               /\ UNCHANGED eexc
          ELSE /\ EnrichRaise("NoSuchElementException")
               /\ UNCHANGED <<new_window_handle, current_window_handle>>
     ELSE /\ EnrichRaise("TimeoutException")
          /\ UNCHANGED <<new_window_handle, current_window_handle>>
  /\ UNCHANGED <<enrichFrame, wrapVars, window_handles, nextHandle, seller_info,
                 search_results_window_handle, old_handles, preHandles, preInfo, enrichExecs>>
  /\ UNCHANGED <<fnVars, scrapeVars, exportVars, traceVars>>

fieldFrame == <<enrichFrame, wrapVars, browserVars, search_results_window_handle, old_handles,
                new_window_handle, preHandles, preInfo, enrichExecs>>

\* line 468: wait for the body of the profile page
EnrichWaitBody ==
  /\ epc = "wait_body"
  /\ \E o \in {"ok", "TimeoutException", "Exception"} :
       IF o = "ok" THEN epc' = "title" /\ UNCHANGED eexc ELSE EnrichRaise(o)
  /\ UNCHANGED <<fieldFrame, seller_info>>
  /\ UNCHANGED <<fnVars, scrapeVars, exportVars, traceVars>>

\* what a look-up whose handler catches only NoSuchElementException and
\* TimeoutException can end with: the element, nothing, or another
\* WebDriverException (a stale element when its text is read)
GuardedLookup == {"found", "absent", "WebDriverException"}

\* the variables of the run's trail that the look-ups of a profile leave alone
fieldTrace == <<run_calls, run_report, quit_called, current_url, page_marker, login_steps,
                screenshots, start_handles>>

\* the look-up of one field and how it ended; "skipped" when the guard of
\* the field kept the look-up from being made
FieldStep(name, o) == steps' = << <<name, o>> >>

\* a variant in which a field that is not found ends the try block
FieldAbsentRaises(o) == o # "found"

\* lines 478, 490, 501, 512, 522: NoSuchElementException and TimeoutException
\* are caught where they arise; any other exception leaves the try block
FieldRaises(o) == o \notin {"found", "absent"}

\* lines 472-480
EnrichTitle ==
  /\ epc = "title"
  /\ IF ~Truthy(seller_info.ProductTitle)
     THEN \E o \in GuardedLookup, text \in TitleTexts :
            /\ FieldStep("title", o)
            /\ IF FieldRaises(o) THEN EnrichRaise(IF o = "absent" THEN "TimeoutException" ELSE o)
                                      /\ UNCHANGED seller_info
               ELSE /\ epc' = "price" /\ UNCHANGED eexc
                    /\ seller_info' = IF o = "found" THEN [seller_info EXCEPT !.ProductTitle = text]
                                      ELSE seller_info
     ELSE FieldStep("title", "skipped") /\ epc' = "price" /\ UNCHANGED <<seller_info, eexc>>
  /\ UNCHANGED fieldFrame
  /\ UNCHANGED <<fnVars, scrapeVars, exportVars, fieldTrace>>

\* a variant of line 483 that looks for the price whatever the record holds
PriceMissingAlways(info) == TRUE

\* line 483
PriceMissing(info) == info.Price = NotListed

\* lines 483-491
EnrichPrice ==
  /\ epc = "price"
  /\ IF PriceMissing(seller_info)
     THEN \E o \in GuardedLookup, text \in PriceTexts :
            /\ FieldStep("price", o)
            /\ IF FieldRaises(o) THEN EnrichRaise(IF o = "absent" THEN "TimeoutException" ELSE o)
                                      /\ UNCHANGED seller_info
               ELSE /\ epc' = "company" /\ UNCHANGED eexc
                    /\ seller_info' = IF o = "found" THEN [seller_info EXCEPT !.Price = text]
                                      ELSE seller_info
     ELSE FieldStep("price", "skipped") /\ epc' = "company" /\ UNCHANGED <<seller_info, eexc>>
  /\ UNCHANGED fieldFrame
  /\ UNCHANGED <<fnVars, scrapeVars, exportVars, fieldTrace>>

\* lines 494-502
EnrichCompany ==
  /\ epc = "company"
  /\ IF ~Truthy(seller_info.CompanyName)
     THEN \E o \in GuardedLookup, text \in NameTexts :
            /\ FieldStep("company", o)
            /\ IF FieldRaises(o) THEN EnrichRaise(IF o = "absent" THEN "TimeoutException" ELSE o)
                                      /\ UNCHANGED seller_info
               ELSE /\ epc' = "address" /\ UNCHANGED eexc
                    /\ seller_info' = IF o = "found" THEN [seller_info EXCEPT !.CompanyName = text]
                                      ELSE seller_info
     ELSE FieldStep("company", "skipped") /\ epc' = "address" /\ UNCHANGED <<seller_info, eexc>>
  /\ UNCHANGED fieldFrame
  /\ UNCHANGED <<fnVars, scrapeVars, exportVars, fieldTrace>>

\* a variant of line 511 that keeps the address when the element has no text
AddressFoundIfText(info, text) == IF text = <<>> THEN info ELSE [info EXCEPT !.Address = text]

\* lines 511, 521: seller_info["Address"] = element.text.strip()
AddressFound(info, text) == [info EXCEPT !.Address = text]

\* lines 506-514: the address under the product heading; when it is not
\* found the handler goes on to the seller contact section
EnrichAddress ==
  /\ epc = "address"
  /\ \E o \in GuardedLookup, text \in AddressTexts :
       /\ FieldStep("address", o)
       /\ IF FieldRaises(o) THEN EnrichRaise(IF o = "absent" THEN "TimeoutException" ELSE o)
                                 /\ UNCHANGED seller_info
          ELSE /\ epc' = IF o = "found" THEN "phone" ELSE "address_fallback"
               /\ UNCHANGED eexc
               /\ seller_info' = IF o = "found" THEN AddressFound(seller_info, text) ELSE seller_info
  /\ UNCHANGED fieldFrame
  /\ UNCHANGED <<fnVars, scrapeVars, exportVars, fieldTrace>>

\* lines 515-523: the address in the seller contact section
EnrichAddressFallback ==
  /\ epc = "address_fallback"
  /\ \E o \in GuardedLookup, text \in AddressTexts :
       /\ FieldStep("address_fallback", o)
       /\ IF FieldRaises(o) THEN EnrichRaise(IF o = "absent" THEN "TimeoutException" ELSE o)
                                 /\ UNCHANGED seller_info
          ELSE /\ epc' = "phone" /\ UNCHANGED eexc
               /\ seller_info' = IF o = "found" THEN AddressFound(seller_info, text) ELSE seller_info
  /\ UNCHANGED fieldFrame
  /\ UNCHANGED <<fnVars, scrapeVars, exportVars, fieldTrace>>

\* lines 526-545: click "View Mobile No." and read the revealed number;
\* every exception is caught
EnrichPhone ==
  /\ epc = "phone"
  /\ IF ~Truthy(seller_info.PhoneNumber)
     THEN \E o \in GuardedLookup, text \in RevealedPhones :
            /\ FieldStep("phone", o)
            /\ seller_info' = IF o = "found"
                              THEN [seller_info EXCEPT !.PhoneNumber = validate_phone(text)]
                              ELSE seller_info
     ELSE FieldStep("phone", "skipped") /\ UNCHANGED seller_info
  /\ epc' = "email"
  /\ UNCHANGED <<fieldFrame, eexc>>
  /\ UNCHANGED <<fnVars, scrapeVars, exportVars, fieldTrace>>

\* lines 563-567: the first candidate text that validate_email accepts
RECURSIVE FirstValidEmail(_, _)
FirstValidEmail(candidates, current) ==
  IF candidates = <<>> THEN current
  ELSE IF validate_email(Strip(Head(candidates))) # <<>>
       THEN validate_email(Strip(Head(candidates)))
       ELSE FirstValidEmail(Tail(candidates), current)

\* lines 548-572: a mailto link under the "Send Email" element, else the
\* page's texts that contain "@"; every exception is caught
EnrichEmail ==
  /\ epc = "email"
  /\ IF ~Truthy(seller_info.Email)
     THEN \E o \in {"mailto", "texts", "absent", "WebDriverException"} :
            /\ FieldStep("email", o)
            /\ CASE o = "mailto" ->
                      \E href \in MailtoTexts :
                        seller_info' = [seller_info EXCEPT !.Email = validate_email(Strip(href))]
                 [] o = "texts" ->
                      \E candidates \in SeqsUpTo(MailtoTexts, 2) :
                        seller_info' = [seller_info EXCEPT
                                          !.Email = FirstValidEmail(candidates, seller_info.Email)]
                 [] OTHER -> UNCHANGED seller_info
     ELSE FieldStep("email", "skipped") /\ UNCHANGED seller_info
  /\ epc' = "catalog"
  /\ UNCHANGED <<fieldFrame, eexc>>
  /\ UNCHANGED <<fnVars, scrapeVars, exportVars, fieldTrace>>

\* line 587: a reference that names a PDF or a catalog host ("p" here)
IsCatalogHref(href) == Truthy(href) /\ Contains(href, <<"p">>)

\* lines 585-590: the first link whose reference qualifies
RECURSIVE FirstCatalog(_, _)
FirstCatalog(links, current) ==
  IF links = <<>> THEN current
  ELSE IF IsCatalogHref(Head(links)) THEN Head(links)
       ELSE FirstCatalog(Tail(links), current)

\* lines 575-592: every exception is caught; the try block ends here
EnrichCatalog ==
  /\ epc = "catalog"
  /\ IF ~Truthy(seller_info.ProductCatalogURL)
     THEN \E o \in {"found", "absent"}, links \in SeqsUpTo(CatalogHrefs, 2) :
            /\ FieldStep("catalog", o)
            /\ seller_info' = IF o = "found"
                              THEN [seller_info EXCEPT
                                      !.ProductCatalogURL = FirstCatalog(links, seller_info.ProductCatalogURL)]
                              ELSE seller_info
     ELSE FieldStep("catalog", "skipped") /\ UNCHANGED seller_info
  /\ epc' = "finally"
  /\ UNCHANGED <<fieldFrame, eexc>>
  /\ UNCHANGED <<fnVars, scrapeVars, exportVars, fieldTrace>>

\* lines 600, 604: the file the handler saves
EnrichScreenshots(e) ==
  IF e \in {"WebDriverException", "TimeoutException", "NoSuchElementException"}
  THEN {<<"profile_page_error.png", 0>>}
  ELSE {<<"profile_page_unexpected_error.png", 0>>}

\* lines 598-605: log, screenshot, raise again
EnrichExcept ==
  /\ epc = "except"
  /\ epc' = "finally"
  /\ screenshots' = screenshots \cup EnrichScreenshots(eexc)
  /\ UNCHANGED <<fieldFrame, seller_info, eexc>>
  /\ UNCHANGED <<fnVars, scrapeVars, exportVars, run_calls, run_report, quit_called,
                 current_url, page_marker, login_steps, steps, start_handles>>

\* a variant of lines 609-619 that switches back without closing the tab
EnrichCleanupNoClose(handles, current, new, anchor) ==
  [handles |-> handles, current |-> IF anchor \in Range(handles) THEN anchor ELSE current]

\* lines 609-625: close the new tab if it is still open, then switch to
\* the results window (a failure to switch is caught and logged)
EnrichCleanup(handles, current, new, anchor) ==
  LET closing == new # NoHandle /\ new \in Range(handles)
      left == IF closing THEN RemoveHandle(handles, new) ELSE handles
      cur == IF closing THEN NoHandle ELSE current
  IN [handles |-> left, current |-> IF anchor \in Range(left) THEN anchor ELSE cur]

\* lines 606-625, then the function returns None or the exception goes on
\* to wrapper
EnrichFinally ==
  /\ epc = "finally"
  /\ LET c == EnrichCleanup(window_handles, current_window_handle, new_window_handle,
                            search_results_window_handle) IN
       /\ window_handles' = c.handles
       /\ current_window_handle' = c.current
  /\ epc' = IF eexc = NoExc THEN "returned" ELSE "wrapper_except"
  /\ steps' = <<>>
  /\ UNCHANGED <<enrichFrame, wrapVars, nextHandle, seller_info, search_results_window_handle,
                 old_handles, new_window_handle, eexc, preHandles, preInfo, enrichExecs>>
  /\ UNCHANGED <<fnVars, scrapeVars, exportVars, fieldTrace>>

\* wrapper lines 48-54 around _extract_detailed_info_from_profile
EnrichWrapperExcept ==
  /\ epc = "wrapper_except"
  /\ LET h == WrapperExcept(attempts, max_attempts, eexc) IN
       /\ attempts' = h.attempts
       /\ IF h.next = "raise"
          THEN wexc' = h.exc /\ epc' = "raised"
          ELSE wexc' = wexc /\ epc' = "wrapper_loop"
  /\ UNCHANGED <<max_attempts, invocations, returnedAt, script, wpc, wresult, opexc,
                 keyword, score, spc, runVars, browserVars, seller_info,
                 search_results_window_handle, old_handles, new_window_handle, eexc,
                 preHandles, preInfo, enrichExecs>>
  /\ UNCHANGED <<fnVars, scrapeVars, exportVars, traceVars>>

---------------------------------------------------------------------------
(* One call of validate_phone or validate_email: lines 69-87               *)

MaxPhoneHead == 3   \* longest free-form head of a phone text drawn
MaxEmailLen == 5    \* longest email text drawn

\* the phone texts drawn: a head of digits, dashes and spaces in front of a
\* run of digits, so that the digit count ranges over 0..14
PhoneHeadAlphabet == {"9", "1", "0", "-", " "}
DigitRun == <<"9", "8", "7", "6", "5", "4", "3", "2", "1", "0", "9">>
TailLens == {0} \cup 7..11
PhoneTexts ==
  {h \o SubSeq(DigitRun, 1, n) : h \in SeqsUpTo(PhoneHeadAlphabet, MaxPhoneHead), n \in TailLens}
    \cup PhoneInputs

\* the email texts drawn
EmailAlphabet == {"A", "@", ".", " "}
EmailTexts == SeqsUpTo(EmailAlphabet, MaxEmailLen)

FnInit ==
  /\ \/ fn = "validate_phone" /\ arg \in PhoneTexts
     \/ fn = "validate_email" /\ arg \in EmailTexts
  /\ ret = NoText
  /\ fpc = "start"

FnIdle ==
  /\ fn = NoneVal
  /\ arg = <<>>
  /\ ret = NoText
  /\ fpc = "idle"

CallValidatePhone ==
  /\ fpc = "start" /\ fn = "validate_phone"
  /\ ret' = validate_phone(arg)
  /\ fpc' = "done"
  /\ UNCHANGED <<fn, arg, retryVars, scoreVars, browserVars, runVars, enrichVars,
                 scrapeVars, exportVars, traceVars>>

CallValidateEmail ==
  /\ fpc = "start" /\ fn = "validate_email"
  /\ ret' = validate_email(arg)
  /\ fpc' = "done"
  /\ UNCHANGED <<fn, arg, retryVars, scoreVars, browserVars, runVars, enrichVars,
                 scrapeVars, exportVars, traceVars>>

---------------------------------------------------------------------------
(* _extract_seller_info_from_listing: src/scraper.py lines 362-437         *)

\* what a look-up inside the listing element can do: find the element, raise
\* NoSuchElementException, or raise another exception (the card has gone stale)
ListingLookups == {"found", "NoSuchElementException", "StaleElementReferenceException"}

\* one look-up of a listing element: its outcome and, when the element is
\* found, its text, its href and whether it is displayed
Lookup(o, text, href, displayed) == [o |-> o, text |-> text, href |-> href, displayed |-> displayed]
Absent == Lookup("NoSuchElementException", <<>>, NoText, FALSE)
Stale == Lookup("StaleElementReferenceException", <<>>, NoText, FALSE)

\* the inner handlers catch NoSuchElementException only (lines 379, 386, 396,
\* 403, 410, 419); anything else leaves the outer try block
LeavesTry(el) == el.o \notin {"found", "NoSuchElementException"}

\* lines 375-378
ListingTitle(info, el) ==
  IF el.o = "found"
  THEN [info EXCEPT !.ProductTitle = Strip(el.text), !.CompanyProfileURL = el.href]
  ELSE info

\* lines 383-385
ListingPrice(info, el) ==
  IF el.o = "found" THEN [info EXCEPT !.Price = Strip(el.text)] ELSE info

\* lines 389-395
ListingCompany(info, el) ==
  IF el.o = "found"
  THEN [info EXCEPT !.CompanyName = Strip(el.text),
                    !.CompanyProfileURL = IF ~Truthy(info.CompanyProfileURL) THEN el.href ELSE @]
  ELSE info

\* lines 399-402
ListingShortLocation(info, el) ==
  IF el.o = "found" THEN [info EXCEPT !.Address = Strip(el.text)] ELSE info

\* lines 405-409
ListingFullAddress(info, el) ==
  IF el.o = "found" /\ Truthy(Strip(el.text)) THEN [info EXCEPT !.Address = Strip(el.text)] ELSE info

\* lines 412-417
ListingPhone(info, el) ==
  IF el.o = "found" /\ el.displayed
  THEN [info EXCEPT !.PhoneNumber = validate_phone(Strip(el.text))]
  ELSE info

\* a variant of line 425 that takes NoSuchElementException only
ListingCaughtNarrow(o) == o = "NoSuchElementException"

\* line 425: except Exception
ListingCaught(o) == TRUE

\* a variant of lines 412-417 that also looks for an email on the card
ListingEmailFromCard(info, card) ==
  IF card.phone.o = "found" THEN [info EXCEPT !.Email = <<"e", "@", "f", ".", "g">>] ELSE info

\* lines 421-423: email and catalog reference are not looked for on the card
ListingEmail(info, card) == info

\* lines 362-427: the six look-ups in order; the first that raises anything
\* but NoSuchElementException ends the try block, the outer handler logs,
\* and the record is returned as far as it was filled
extract_seller_info_from_listing(card) ==
  LET els == <<card.title, card.price, card.company, card.short, card.full, card.phone>>
      left(k) == \E j \in 1..k : LeavesTry(els[j])
      s1 == ListingTitle(EmptyInfo, card.title)
      s2 == IF left(1) THEN s1 ELSE ListingPrice(s1, card.price)
      s3 == IF left(2) THEN s2 ELSE ListingCompany(s2, card.company)
      s4 == IF left(3) THEN s3 ELSE ListingShortLocation(s3, card.short)
      s5 == IF left(4) THEN s4 ELSE ListingFullAddress(s4, card.full)
      s6 == IF left(5) THEN s5 ELSE ListingPhone(s5, card.phone)
      s7 == IF left(6) THEN s6 ELSE ListingEmail(s6, card)
      first == CHOOSE j \in 1..6 : LeavesTry(els[j]) /\ \A i \in 1..(j - 1) : ~LeavesTry(els[i])
  IN  [info   |-> s7,
       raised |-> IF left(6) /\ ~ListingCaught(els[first].o) THEN els[first].o ELSE NoExc]

\* the listing elements drawn
ListingTitleTexts == {<<>>, <<" ", "A", "b">>}
ListingHrefs == {NoText, <<"u">>}
TitleLookups ==
  {Absent, Stale} \cup {Lookup("found", t, h, TRUE) : t \in ListingTitleTexts, h \in ListingHrefs}
PriceLookups == {Absent, Stale, Lookup("found", <<"9">>, NoText, TRUE)}
CompanyLookups == {Absent, Stale, Lookup("found", <<"B">>, <<"v">>, TRUE)}
ShortLookups == {Absent, Lookup("found", <<"c">>, NoText, TRUE)}
FullLookups == {Absent, Stale, Lookup("found", <<" ">>, NoText, TRUE), Lookup("found", <<"d">>, NoText, TRUE)}
PhoneLookups ==
  {Absent, Stale, Lookup("found", Phone91, NoText, FALSE), Lookup("found", Phone91, NoText, TRUE)}
ListingElements ==
  [title : TitleLookups, price : PriceLookups, company : CompanyLookups,
   short : ShortLookups, full : FullLookups, phone : PhoneLookups]

ListingInit ==
  /\ fn = "_extract_seller_info_from_listing"
  /\ arg \in ListingElements
  /\ ret = NoText
  /\ fpc = "start"

\* one call of _extract_seller_info_from_listing (line 730)
CallExtractListing ==
  /\ fpc = "start" /\ fn = "_extract_seller_info_from_listing"
  /\ LET r == extract_seller_info_from_listing(arg) IN
       /\ ret' = r
       /\ fpc' = IF r.raised = NoExc THEN "done" ELSE "raised"
  /\ UNCHANGED <<fn, arg, retryVars, scoreVars, browserVars, runVars, enrichVars,
                 scrapeVars, exportVars, traceVars>>

---------------------------------------------------------------------------
(* scrape_search_results: src/scraper.py lines 668-784                     *)

MaxMinLeads == 2   \* min_leads ranges over 0..MaxMinLeads
MaxPages == 2      \* pages the site offers

\* the text fields of a lead record (the keys whose values are str)
TextFields == {"CompanyName", "CompanyProfileURL", "ProductTitle", "ProductCatalogURL",
               "Price", "Address", "PhoneNumber", "Email"}

\* line 64: .replace('\n', ' ').replace('\t', ' ')
ReplaceNewlinesTabs(s) == [i \in 1..Len(s) |-> IF s[i] \in {"\n", "\t"} THEN " " ELSE s[i]]

\* line 66: one s.replace('  ', ' '), left to right without overlap
RECURSIVE ReplaceDoubleSpaces(_)
ReplaceDoubleSpaces(s) ==
  IF Len(s) < 2 THEN s
  ELSE IF s[1] = " " /\ s[2] = " "
       THEN <<" ">> \o ReplaceDoubleSpaces(SubSeq(s, 3, Len(s)))
       ELSE <<s[1]>> \o ReplaceDoubleSpaces(Tail(s))

\* lines 65-66: while '  ' in data[key]
RECURSIVE CollapseSpaces(_)
CollapseSpaces(s) ==
  IF Contains(s, <<" ", " ">>) THEN CollapseSpaces(ReplaceDoubleSpaces(s)) ELSE s

\* lines 63-66 for one value; a value that is not a str (None) is left alone
SanitizeValue(value) ==
  IF value = NoText THEN value ELSE CollapseSpaces(ReplaceNewlinesTabs(Strip(value)))

\* a variant of lines 63-66 that trims and replaces but does not collapse
sanitize_dataNoCollapse(data) ==
  [k \in DOMAIN data |->
     IF k \in TextFields /\ data[k] # NoText THEN ReplaceNewlinesTabs(Strip(data[k])) ELSE data[k]]

\* sanitize_data: lines 58-67
sanitize_data(data) ==
  [k \in DOMAIN data |-> IF k \in TextFields THEN SanitizeValue(data[k]) ELSE data[k]]

\* the keyword of the scrape
ScrapeKeyword == <<"b">>

\* the listing elements of the pages drawn: a card with every element but
\* whose links carry no reference, a card with an empty title link and
\* nothing else, a card without title and company name
ElComplete ==
  [title   |-> Lookup("found", <<"b", "\n", "b">>, NoText, TRUE),
   price   |-> Lookup("found", <<"5">>, NoText, TRUE),
   company |-> Lookup("found", <<"B", " ", " ", " ", "b">>, NoText, TRUE),
   short   |-> Absent,
   full    |-> Lookup("found", <<"d", "\t", " ", "d">>, NoText, TRUE),
   phone   |-> Lookup("found", Phone10, NoText, TRUE)]
ElBare ==
  [title |-> Lookup("found", <<>>, NoText, TRUE), price |-> Absent, company |-> Absent,
   short |-> Absent, full |-> Absent, phone |-> Absent]
ElAnonymous ==
  [title |-> Lookup("found", <<>>, ProfileUrl, TRUE), price |-> Lookup("found", <<"5">>, NoText, TRUE),
   company |-> Absent, short |-> Absent, full |-> Absent,
   phone |-> Lookup("found", Phone10, NoText, TRUE)]

\* the records line 730 makes of them
CardComplete == extract_seller_info_from_listing(ElComplete).info
CardBare == extract_seller_info_from_listing(ElBare).info
CardAnonymous == extract_seller_info_from_listing(ElAnonymous).info
ListingCards == {CardComplete, CardBare, CardAnonymous}
\* the pages drawn: one card, or two cards of which the first or the second
\* is not retained
PageCardLists ==
  [1..1 -> ListingCards] \cup {<<CardComplete, CardBare>>, <<CardBare, CardAnonymous>>}

ScrapeIdle ==
  /\ leads = <<>>
  /\ min_leads = 0
  /\ page_num = 0
  /\ scpc = "idle"
  /\ page_cards = <<>>
  /\ card_idx = 0
  /\ scrape_exc = NoExc
  /\ enrich_calls = 0
  /\ score_calls = 0
  /\ next_clicks = 0
  /\ page_expansions = 0

\* run has logged in and searched (line 892): the driver is on the results
\* window, the second one
ScrapeEntry ==
  /\ seller_info = EmptyInfo
  /\ score = NoScore
  /\ spc = "idle"
  /\ window_handles = <<1, 2>>
  /\ current_window_handle = 2
  /\ nextHandle = 3
  /\ leads = <<>>
  /\ page_num = 0
  /\ scpc = "start"
  /\ page_cards = <<>>
  /\ card_idx = 0
  /\ scrape_exc = NoExc
  /\ enrich_calls = 0
  /\ score_calls = 0
  /\ next_clicks = 0
  /\ page_expansions = 0

ScrapeInit ==
  /\ min_leads \in 0..MaxMinLeads
  /\ keyword = ScrapeKeyword
  /\ ScrapeEntry

\* a keyword of two words, as the default "Cricket Ball" of line 856
StoreKeyword == <<"b", " ", "b">>

\* the same call with a keyword of two words, for one lead
StoreInit ==
  /\ min_leads = 1
  /\ keyword = StoreKeyword
  /\ ScrapeEntry

scrapeFrame == <<retryVars, runVars, fnVars, keyword, spc, min_leads, nextHandle, window_handles,
                 old_handles, new_window_handle, eexc, preHandles, preInfo, enrichExecs,
                 run_calls, run_report, quit_called, current_url, page_marker, login_steps>>

\* lines 674-678
ScrapeStart ==
  /\ scpc = "start"
  /\ page_num' = 1
  /\ leads' = <<>>
  /\ search_results_window_handle' = current_window_handle
  /\ start_handles' = window_handles
  /\ scpc' = "loop"
  /\ UNCHANGED <<scrapeFrame, exportVars, seller_info, score, current_window_handle, epc,
                 page_cards, card_idx, scrape_exc, enrich_calls, score_calls, next_clicks,
                 page_expansions, steps, screenshots>>

\* line 680
ScrapeLoopTest ==
  /\ scpc = "loop"
  /\ scpc' = IF Len(leads) < min_leads THEN "page" ELSE "return"
  /\ UNCHANGED <<scrapeFrame, exportVars, seller_info, score, current_window_handle, epc,
                 search_results_window_handle, leads, page_num, page_cards, card_idx,
                 scrape_exc, enrich_calls, score_calls, next_clicks, page_expansions,
                 steps, screenshots, start_handles>>

\* lines 775, 779: the file the handler saves for the page
ScrapeScreenshot(e, page) ==
  IF e = "TimeoutException" THEN <<"page_timeout.png", page>> ELSE <<"page_error.png", page>>

\* a variant of lines 773-780 that goes on with the while loop
ScrapeFailContinues(e) ==
  /\ scrape_exc' = e
  /\ screenshots' = screenshots \cup {ScrapeScreenshot(e, page_num)}
  /\ scpc' = "loop"

\* lines 773-780: log, screenshot, break
ScrapeFail(e) ==
  /\ scrape_exc' = e
  /\ screenshots' = screenshots \cup {ScrapeScreenshot(e, page_num)}
  /\ scpc' = "return"

\* lines 684-691: switch to the results window, wait for the card container
ScrapePage ==
  /\ scpc = "page"
  /\ current_window_handle' = search_results_window_handle
  /\ page_expansions' = 0
  /\ \E o \in {"ok", "TimeoutException", "Exception"} :
       IF o = "ok" THEN scpc' = "show_more" /\ UNCHANGED <<scrape_exc, screenshots>>
       ELSE ScrapeFail(o)
  /\ UNCHANGED <<scrapeFrame, exportVars, seller_info, score, epc,
                 search_results_window_handle, leads, page_num, page_cards, card_idx,
                 enrich_calls, score_calls, next_clicks, steps, start_handles>>

\* lines 696-711: one turn of the "Show more results" loop: a 5 s wait for
\* the control, a click when the wait found it
ScrapeShowMore ==
  /\ scpc = "show_more"
  /\ \E o \in StepOutcomes :
       /\ steps' = <<<<"show_more", o>>>>
       /\ IF ShowMoreBreaks(o)
          THEN /\ scpc' = "find_cards"
               /\ page_expansions' = 0
          ELSE /\ page_expansions < MaxShowMore
               /\ page_expansions' = page_expansions + 1
               /\ UNCHANGED scpc
  /\ UNCHANGED <<scrapeFrame, exportVars, seller_info, score, current_window_handle, epc,
                 search_results_window_handle, leads, page_num, page_cards, card_idx,
                 scrape_exc, enrich_calls, score_calls, next_clicks, screenshots,
                 start_handles>>

\* lines 714-731: find the cards and extract a record from each
ScrapeFindCards ==
  /\ scpc = "find_cards"
  /\ \E o \in {"found", "none", "Exception"} :
       CASE o = "found" ->
              /\ page_cards' \in PageCardLists
              /\ card_idx' = 0
              /\ scpc' = "for"
              /\ UNCHANGED <<scrape_exc, screenshots>>
         [] o = "none" ->
              /\ scpc' = "return"
              /\ UNCHANGED <<page_cards, card_idx, scrape_exc, screenshots>>
         [] OTHER ->
              /\ ScrapeFail(o)
              /\ UNCHANGED <<page_cards, card_idx>>
  /\ steps' = <<>>
  /\ UNCHANGED <<scrapeFrame, exportVars, seller_info, score, current_window_handle, epc,
                 search_results_window_handle, leads, page_num,
                 enrich_calls, score_calls, next_clicks, page_expansions, start_handles>>

\* a variant of lines 736-737 that never leaves the for loop early
ForNeverBreaks(count, wanted) == FALSE

\* lines 736-737
ForBreaks(count, wanted) == count >= wanted

\* a variant of line 744 that asks for the phone number only
WantsDetailsPhoneOnly(info) == ~Truthy(info.PhoneNumber)

\* line 744
WantsDetails(info) ==
  ~Truthy(info.PhoneNumber) \/ ~Truthy(info.Email) \/ ~Truthy(info.ProductCatalogURL)

\* lines 735-746: take the next record of the page, call the enrichment
\* when phone, email or catalog reference is missing
ScrapeForNext ==
  /\ scpc = "for"
  /\ IF card_idx = Len(page_cards) \/ ForBreaks(Len(leads), min_leads)
     THEN /\ scpc' = "next_page"
          /\ UNCHANGED <<seller_info, card_idx, enrich_calls, epc>>
     ELSE /\ seller_info' = page_cards[card_idx + 1]
          /\ card_idx' = card_idx + 1
          /\ IF WantsDetails(page_cards[card_idx + 1])
             THEN /\ enrich_calls' = enrich_calls + 1
                  /\ epc' = "call"
                  /\ scpc' = "enriching"
             ELSE /\ scpc' = "score"
                  /\ UNCHANGED <<enrich_calls, epc>>
  /\ UNCHANGED <<scrapeFrame, exportVars, score, current_window_handle,
                 search_results_window_handle, leads, page_num, page_cards,
                 scrape_exc, score_calls, next_clicks, page_expansions,
                 steps, screenshots, start_handles>>

\* line 746 returns, or the exception wrapper raised reaches line 777
ScrapeAfterEnrich ==
  /\ scpc = "enriching"
  /\ epc \in {"returned", "raised"}
  /\ IF epc = "returned"
     THEN scpc' = "score" /\ UNCHANGED <<scrape_exc, screenshots>>
     ELSE ScrapeFail(wexc)
  /\ epc' = "idle"
  /\ UNCHANGED <<scrapeFrame, exportVars, seller_info, score, current_window_handle,
                 search_results_window_handle, leads, page_num, page_cards, card_idx,
                 enrich_calls, score_calls, next_clicks, page_expansions, steps,
                 start_handles>>

\* a variant of line 752 that retains every record
RetainedAlways(info) == TRUE

\* line 752
Retained(info) == Truthy(info.CompanyName) \/ Truthy(info.ProductTitle)

\* lines 749-754: score the record; retain it, sanitized, when it has a
\* company name or a product title
ScrapeScoreAndStore ==
  /\ scpc = "score"
  /\ \E sc \in RelevancyScores(seller_info, keyword) :
       LET scored == [seller_info EXCEPT !.RelevancyScore = sc] IN
         /\ score' = sc
         /\ IF Retained(scored)
            THEN /\ seller_info' = sanitize_data(scored)
                 /\ leads' = Append(leads, sanitize_data(scored))
            ELSE /\ seller_info' = scored
                 /\ UNCHANGED leads
  /\ score_calls' = score_calls + 1
  /\ scpc' = "for"
  /\ UNCHANGED <<scrapeFrame, exportVars, current_window_handle, epc,
                 search_results_window_handle, page_num, page_cards, card_idx,
                 scrape_exc, enrich_calls, next_clicks, page_expansions,
                 steps, screenshots, start_handles>>

\* lines 758-771: with too few leads, look for the "Next" control
ScrapeNextPage ==
  /\ scpc = "next_page"
  /\ IF Len(leads) < min_leads
     THEN /\ current_window_handle' = search_results_window_handle
          /\ \E o \in {"clicked", "TimeoutException", "NoSuchElementException", "Exception"} :
               CASE o = "clicked" ->
                      /\ page_num < MaxPages
                      /\ page_num' = page_num + 1
                      /\ next_clicks' = next_clicks + 1
                      /\ scpc' = "loop"
                      /\ UNCHANGED <<scrape_exc, screenshots>>
                 [] o = "Exception" ->
                      /\ ScrapeFail(o)
                      /\ UNCHANGED <<page_num, next_clicks>>
                 [] OTHER ->
                      /\ scpc' = "return"
                      /\ UNCHANGED <<page_num, next_clicks, scrape_exc, screenshots>>
     ELSE /\ scpc' = "loop"
          /\ UNCHANGED <<current_window_handle, page_num, next_clicks, scrape_exc, screenshots>>
  /\ UNCHANGED <<scrapeFrame, exportVars, seller_info, score, epc,
                 search_results_window_handle, leads, page_cards, card_idx,
                 enrich_calls, score_calls, page_expansions, steps, start_handles>>

\* lines 782-784, run line 892
ScrapeReturn ==
  /\ scpc = "return"
  /\ run_leads' = leads
  /\ scpc' = "returned"
  /\ xpc' = "after_scrape"
  /\ UNCHANGED <<scrapeFrame, seller_info, score, current_window_handle, epc,
                 search_results_window_handle, leads, page_num, page_cards, card_idx,
                 scrape_exc, enrich_calls, score_calls, next_clicks, page_expansions,
                 csv_rows, export_success, steps, screenshots, start_handles>>

---------------------------------------------------------------------------
(* export_to_csv: src/scraper.py lines 786-824                             *)

MaxStore == 3   \* most leads in a store drawn for export

\* to_csv writes a missing value (None) as an empty cell (line 818)
CsvCell(value) == IF value = NoText THEN <<>> ELSE value

\* a variant of lines 799-809 that lists the profile reference before the
\* catalog reference
RowProfileFirst(lead) ==
  <<CsvCell(lead.CompanyName), CsvCell(lead.ProductTitle), CsvCell(lead.Price),
    CsvCell(lead.Address), CsvCell(lead.PhoneNumber), CsvCell(lead.Email),
    CsvCell(lead.CompanyProfileURL), CsvCell(lead.ProductCatalogURL), lead.RelevancyScore>>

\* lines 799-809, 813-818: the cells of one row, in the order of `fields`
Row(lead) ==
  <<CsvCell(lead.CompanyName), CsvCell(lead.ProductTitle), CsvCell(lead.Price),
    CsvCell(lead.Address), CsvCell(lead.PhoneNumber), CsvCell(lead.Email),
    CsvCell(lead.ProductCatalogURL), CsvCell(lead.CompanyProfileURL), lead.RelevancyScore>>

\* sorted() is stable and reverse=True keeps the order of equal keys: a
\* record goes behind every record whose score is not lower
RECURSIVE InsertByScore(_, _)
InsertByScore(sorted, x) ==
  IF sorted = <<>> THEN <<x>>
  ELSE IF Head(sorted).RelevancyScore >= x.RelevancyScore
       THEN <<Head(sorted)>> \o InsertByScore(Tail(sorted), x)
       ELSE <<x>> \o sorted

\* a variant of line 811 that keeps the discovery order
sorted_leadsDiscoveryOrder(ls) == ls

\* line 811: sorted(self.leads, key=score, reverse=True)
RECURSIVE sorted_leads(_)
sorted_leads(ls) ==
  IF ls = <<>> THEN <<>>
  ELSE InsertByScore(sorted_leads(SubSeq(ls, 1, Len(ls) - 1)), ls[Len(ls)])

\* lines 811-818: the data rows of the file
CsvRows(ls) == [i \in 1..Len(ls) |-> Row(sorted_leads(ls)[i])]

\* records a store can hold: sanitized, with a company name or a product
\* title, scored for ScrapeKeyword
LeadComplete ==
  [sanitize_data(CardComplete) EXCEPT !.CompanyProfileURL = ProfileUrl,
                                      !.Email = <<"e", "@", "f", ".", "g">>,
                                      !.ProductCatalogURL = <<"k">>, !.RelevancyScore = 100]
LeadNameOnly == [CardBare EXCEPT !.CompanyName = <<"B">>, !.RelevancyScore = 30]
LeadTitleOnly == [EmptyInfo EXCEPT !.ProductTitle = <<"b">>, !.Price = <<"5">>, !.RelevancyScore = 62]
LeadOtherTitle == [EmptyInfo EXCEPT !.ProductTitle = <<"A", "b">>, !.RelevancyScore = 62]
LeadWithPhone == [EmptyInfo EXCEPT !.ProductTitle = <<"b">>, !.PhoneNumber = Phone10, !.RelevancyScore = 65]
ExportLeads == {LeadComplete, LeadNameOnly, LeadTitleOnly, LeadOtherTitle, LeadWithPhone}

ExportIdle ==
  /\ run_leads = <<>>
  /\ csv_rows = <<>>
  /\ export_success = Unset
  /\ xpc = "idle"

\* a call of export_to_csv on a store
ExportInit ==
  /\ leads \in SeqsUpTo(ExportLeads, MaxStore)
  /\ run_leads = leads
  /\ csv_rows = <<>>
  /\ export_success = Unset
  /\ xpc = "export"
  /\ min_leads = MaxStore
  /\ page_num = 1
  /\ scpc = "returned"
  /\ page_cards = <<>>
  /\ card_idx = 0
  /\ scrape_exc = NoExc
  /\ enrich_calls = 0
  /\ score_calls = 0
  /\ next_clicks = 0
  /\ page_expansions = 0

\* a variant of line 895 that never exports
RunExportsNever(ls) == FALSE

\* line 895: `if leads:`
RunExports(ls) == ls # <<>>

\* run lines 892-903: export when scrape_search_results returned leads
RunAfterScrape ==
  /\ xpc = "after_scrape"
  /\ xpc' = IF RunExports(run_leads) THEN "export" ELSE "done"
  /\ run_calls' = IF RunExports(run_leads) THEN Append(run_calls, "export_to_csv") ELSE run_calls
  /\ UNCHANGED <<retryVars, scoreVars, browserVars, runVars, enrichVars, fnVars, scrapeVars,
                 run_leads, csv_rows, export_success, run_report, quit_called, current_url,
                 page_marker, login_steps, steps, screenshots, start_handles>>

\* export_to_csv, lines 786-824: nothing is written for an empty store or
\* when building or writing the table raises
ExportToCsv ==
  /\ xpc = "export"
  /\ IF leads = <<>>
     THEN export_success' = "False" /\ UNCHANGED csv_rows
     ELSE \E o \in {"written", "Exception"} :
            IF o = "written"
            THEN csv_rows' = CsvRows(leads) /\ export_success' = "True"
            ELSE export_success' = "False" /\ UNCHANGED csv_rows
  /\ xpc' = "done"
  /\ UNCHANGED <<retryVars, scoreVars, browserVars, runVars, enrichVars, fnVars, scrapeVars,
                 run_leads, traceVars>>

---------------------------------------------------------------------------
(* run after search_product, and what ends it early: lines 892-919        *)

\* run line 892: self.scrape_search_results(keyword, min_leads=args.min_leads)
RunCallScrape ==
  /\ pc = "run_scrape"
  /\ pc' = "scraping"
  /\ scpc' = "start"
  /\ run_calls' = Append(run_calls, "scrape_search_results")
  /\ steps' = <<>>
  /\ UNCHANGED <<retryVars, scoreVars, browserVars, enrichVars, fnVars, exportVars,
                 wfunc, self_mobile_number, mobile_number, typed, loginExecs, searchExecs,
                 loginFail, searchFail, login_success, search_success, main_window_handle,
                 entryHandles, entryFocus, show_more_clicks,
                 leads, min_leads, page_num, page_cards, card_idx, scrape_exc, enrich_calls,
                 score_calls, next_clicks, page_expansions,
                 run_report, quit_called, current_url, page_marker, login_steps, screenshots,
                 start_handles>>

\* run lines 895-909: the if-else chain is through, control reaches finally
RunFinish ==
  /\ pc = "scraping"
  /\ xpc = "done"
  /\ pc' = "run_close"
  /\ UNCHANGED <<retryVars, scoreVars, browserVars, enrichVars, fnVars, scrapeVars, exportVars,
                 wfunc, self_mobile_number, mobile_number, typed, loginExecs, searchExecs,
                 loginFail, searchFail, login_success, search_success, main_window_handle,
                 entryHandles, entryFocus, show_more_clicks, traceVars>>

\* a variant of lines 911-917 with the clause for Exception only
RunReportCritical(e) == "critical"

\* lines 911-917: the except clause of run that takes the exception
RunReport(e) == IF e = "KeyboardInterrupt" THEN "cancelled" ELSE "critical"

\* the positions of _extract_detailed_info_from_profile inside its try
\* statement (lines 452-605)
EnrichTryPositions ==
  {"open", "wait_window", "wait_body", "title", "price", "company", "address",
   "address_fallback", "phone", "email", "catalog", "except"}

\* the user presses Ctrl-C while login, search_product or
\* scrape_search_results runs, or a statement of run itself raises: no
\* handler below run catches KeyboardInterrupt (they name Exception), the
\* finally clause of lines 606-625 is executed on the way, and the
\* exception reaches lines 911-917
RunRaise ==
  /\ pc \notin {"idle", "run_close", "run_quit", "run_done"}
  /\ \E e \in {"KeyboardInterrupt", "Exception"} :
       /\ e = "Exception" => pc \in {"run_login", "run_search", "run_scrape"}
       /\ run_report' = [exc |-> e, clause |-> RunReport(e)]
  /\ \E cleaned \in BOOLEAN :
       /\ cleaned = TRUE => epc \in EnrichTryPositions \cup {"finally"}
       /\ cleaned = FALSE => epc \notin EnrichTryPositions
       /\ LET c == EnrichCleanup(window_handles, current_window_handle, new_window_handle,
                                 search_results_window_handle) IN
            IF cleaned
            THEN window_handles' = c.handles /\ current_window_handle' = c.current
            ELSE UNCHANGED <<window_handles, current_window_handle>>
  /\ pc' = "run_close"
  /\ scpc' = IF scpc \in {"idle", "returned"} THEN scpc ELSE "aborted"
  /\ epc' = IF epc \in {"idle", "returned", "raised"} THEN epc ELSE "aborted"
  /\ xpc' = IF xpc \in {"idle", "done"} THEN xpc ELSE "aborted"
  /\ UNCHANGED <<retryVars, scoreVars, fnVars, nextHandle,
                 wfunc, self_mobile_number, mobile_number, typed, loginExecs, searchExecs,
                 loginFail, searchFail, login_success, search_success, main_window_handle,
                 entryHandles, entryFocus, show_more_clicks,
                 search_results_window_handle, old_handles, new_window_handle, eexc,
                 preHandles, preInfo, enrichExecs,
                 leads, min_leads, page_num, page_cards, card_idx, scrape_exc, enrich_calls,
                 score_calls, next_clicks, page_expansions,
                 run_leads, csv_rows, export_success,
                 run_calls, quit_called, current_url, page_marker, login_steps, steps,
                 screenshots, start_handles>>

---------------------------------------------------------------------------
(* Specifications                                                          *)

SpecRetryInit ==
  RetryInit /\ ScoreIdle /\ BrowserIdle /\ RunIdle /\ EnrichIdle /\ FnIdle /\ ScrapeIdle /\ ExportIdle /\ TraceIdle
SpecRetryNext == RetryLoop \/ RetryExcept
SpecRetry == SpecRetryInit /\ [][SpecRetryNext]_vars

SpecScoreInit ==
  ScoreInit /\ RetryIdle /\ BrowserIdle /\ RunIdle /\ EnrichIdle /\ FnIdle /\ ScrapeIdle /\ ExportIdle /\ TraceIdle
SpecScoreNext == CalculateRelevancyScore
SpecScore == SpecScoreInit /\ [][SpecScoreNext]_vars

\* run up to the return of search_product, and the final close()
Init == RunInit /\ RetryIdle /\ ScoreIdle /\ EnrichIdle /\ FnIdle /\ ScrapeIdle /\ ExportIdle /\ TraceIdle
Next ==
  \/ RunCallLogin \/ WrapperInvoke
  \/ LoginNavigate \/ LoginNumber \/ LoginEnterNumber \/ LoginSendOtp
  \/ LoginEnterOtp \/ LoginVerifyOtp \/ LoginWaitSuccess
  \/ RunCallSearch
  \/ SearchEnterKeyword \/ SearchClickFirst \/ SearchClickSecond \/ SearchSwitchToNew
  \/ SearchWaitResults \/ SearchSetCity \/ SearchShowMore
  \/ RunClose \/ RunCloseQuit
Spec == Init /\ [][Next]_vars

\* one call of _extract_detailed_info_from_profile from the results window
SpecEnrichInit == EnrichInit /\ RetryIdle /\ RunIdle /\ FnIdle /\ ScrapeIdle /\ ExportIdle /\ TraceIdle
SpecEnrichNext ==
  \/ EnrichCall \/ EnrichInvoke \/ EnrichOpenWindow \/ EnrichSwitchToNew \/ EnrichWaitBody
  \/ EnrichTitle \/ EnrichPrice \/ EnrichCompany \/ EnrichAddress \/ EnrichAddressFallback
  \/ EnrichPhone \/ EnrichEmail \/ EnrichCatalog \/ EnrichExcept \/ EnrichFinally
  \/ EnrichWrapperExcept
SpecEnrich == SpecEnrichInit /\ [][SpecEnrichNext]_vars

\* one call of a field validator on a drawn text
SpecValidateInit ==
  FnInit /\ RetryIdle /\ ScoreIdle /\ BrowserIdle /\ RunIdle /\ EnrichIdle /\ ScrapeIdle /\ ExportIdle /\ TraceIdle
SpecValidateNext == CallValidatePhone \/ CallValidateEmail
SpecValidate == SpecValidateInit /\ [][SpecValidateNext]_vars

\* scrape_search_results as run calls it, and run up to the export
SpecScrapeInit == ScrapeInit /\ RetryIdle /\ RunIdle /\ EnrichIdle /\ FnIdle /\ ExportIdle /\ TraceIdle
SpecScrapeNext ==
  \/ ScrapeStart \/ ScrapeLoopTest \/ ScrapePage \/ ScrapeShowMore \/ ScrapeFindCards
  \/ ScrapeForNext \/ ScrapeAfterEnrich \/ ScrapeScoreAndStore \/ ScrapeNextPage
  \/ ScrapeReturn \/ RunAfterScrape \/ ExportToCsv
  \/ SpecEnrichNext
SpecScrape == SpecScrapeInit /\ [][SpecScrapeNext]_vars

\* the values of min_leads for which termination and whole runs are checked
RunMinLeads == {0, 1}
SpecScrapeFairInit ==
  /\ min_leads \in RunMinLeads /\ keyword = ScrapeKeyword /\ ScrapeEntry
  /\ RetryIdle /\ RunIdle /\ EnrichIdle /\ FnIdle /\ ExportIdle /\ TraceIdle
\* scrape_search_results is one thread of control and each of its steps is
\* a computation or a wait with a timeout, so a step that can be taken is taken
SpecScrapeFair == SpecScrapeFairInit /\ [][SpecScrapeNext]_vars /\ WF_vars(SpecScrapeNext)

\* the scrape for a keyword of two words
SpecStoreInit == StoreInit /\ RetryIdle /\ RunIdle /\ EnrichIdle /\ FnIdle /\ ExportIdle /\ TraceIdle
SpecStore == SpecStoreInit /\ [][SpecScrapeNext]_vars

\* run from its try statement to the end of close(), with the user's
\* interrupt: one configured number, min_leads small
SpecRunInit ==
  /\ RunInit /\ self_mobile_number \in {Phone10, PhoneShort}
  /\ RetryIdle /\ EnrichIdle /\ FnIdle /\ ExportIdle /\ TraceIdle
  /\ seller_info = EmptyInfo /\ keyword = ScrapeKeyword /\ score = NoScore /\ spc = "idle"
  /\ min_leads \in RunMinLeads
  /\ leads = <<>> /\ page_num = 0 /\ scpc = "idle" /\ page_cards = <<>> /\ card_idx = 0
  /\ scrape_exc = NoExc /\ enrich_calls = 0 /\ score_calls = 0 /\ next_clicks = 0
  /\ page_expansions = 0
SpecRunNext == Next \/ RunCallScrape \/ SpecScrapeNext \/ RunFinish \/ RunRaise
SpecRun == SpecRunInit /\ [][SpecRunNext]_vars
\* once control is in the finally clause of run (line 918) nothing waits
\* for the user or the site: close() runs to its end
SpecRunFair == SpecRun /\ WF_vars(RunClose) /\ WF_vars(RunCloseQuit)

\* one call of export_to_csv on a drawn store
\* one call of _extract_seller_info_from_listing on a drawn listing element
SpecListingInit ==
  ListingInit /\ RetryIdle /\ ScoreIdle /\ BrowserIdle /\ RunIdle /\ EnrichIdle /\ ScrapeIdle /\ ExportIdle /\ TraceIdle
SpecListingNext == CallExtractListing
SpecListing == SpecListingInit /\ [][SpecListingNext]_vars

SpecExportInit ==
  /\ ExportInit /\ RetryIdle /\ BrowserIdle /\ RunIdle /\ EnrichIdle /\ FnIdle /\ TraceIdle
  /\ keyword = ScrapeKeyword /\ seller_info = EmptyInfo /\ score = NoScore /\ spc = "idle"
SpecExportNext == ExportToCsv
SpecExport == SpecExportInit /\ [][SpecExportNext]_vars

---------------------------------------------------------------------------
(* Claims about retry (checked under SpecRetry)                            *)

IsExc(o) == o \in Exceptions

\* C2: if the wrapped operation raises on an invocation numbered k < N the
\* wrapper invokes it again; an operation that raises on its 1st invocation
\* and returns on its 2nd makes the wrapper return that value after exactly
\* 2 invocations.
C2_RetriesAfterFailure ==
  wpc = "done" =>
    /\ \A k \in 1..invocations :
         (k < max_attempts /\ IsExc(script[k])) => invocations > k
    /\ (max_attempts >= 2 /\ IsExc(script[1]) /\ ~IsExc(script[2]))
         => (wresult = script[2] /\ invocations = 2 /\ wexc = NoExc)

\* C3: in one call of the wrapper the operation is invoked at most
\* max_attempts times, and never again after an invocation returned normally.
C3_AtMostMaxAttempts ==
  /\ invocations <= max_attempts
  /\ returnedAt # 0 => (invocations = returnedAt /\ wpc = "done")

C3_Witness ==
  /\ wpc = "done"
  /\ max_attempts = 3
  /\ returnedAt = 1
  /\ wresult = script[1]

\* C4: when all N invocations raise, the wrapper raises to its caller the
\* exception raised by the N-th invocation, and only after the N-th invocation.
C4_PropagatesLastFailure ==
  (wpc = "done" /\ \A k \in 1..max_attempts : IsExc(script[k]))
    => (invocations = max_attempts /\ wexc = script[max_attempts])

---------------------------------------------------------------------------
(* Claims about login and search_product (checked under Spec)              *)

SearchReturnedFalse == searchExecs > 0 /\ search_success = "False" /\ pc = "run_close"

\* C5: whenever search_product returns False the focused window is the one
\* focused at entry and the set of open windows equals the set at entry.
C5_FailureRestoresWindows ==
  SearchReturnedFalse =>
    /\ current_window_handle = entryFocus
    /\ Range(window_handles) = Range(entryHandles)

\* the results window had been opened and focused when the failure came
C5_Witness ==
  /\ SearchReturnedFalse
  /\ nextHandle > 2
  /\ searchFail = "TimeoutException"
  /\ current_window_handle = entryFocus
  /\ Range(window_handles) = Range(entryHandles)

TransientFailures == {"TimeoutException", "NoSuchElementException"}

\* C6: a timeout or missing element during login or search_product causes
\* the operation to be executed again from its first step, until it succeeds
\* or 3 executions in total have been made.
C6_RestartsAfterTimeout ==
  /\ (pc \in {"run_close", "run_quit", "run_done"} /\ loginFail \in TransientFailures)
       => loginExecs = 3
  /\ (pc \in {"run_close", "run_quit", "run_done"} /\ searchFail \in TransientFailures)
       => searchExecs = 3

IsTenDigits(text) == Len(text) = 10 /\ \A i \in 1..Len(text) : text[i] \in DigitChars

\* C7: login types an identifier into the form only if the normalized
\* identifier consists of exactly 10 digit characters; for any other
\* identifier it returns failure without a retry and types nothing.
C7_TypesOnlyTenDigits ==
  /\ typed # NoText => IsTenDigits(typed)
  /\ loginFail = "invalid number" => (typed = NoText /\ login_success = "False" /\ loginExecs = 1)

---------------------------------------------------------------------------
(* Claims about _extract_detailed_info_from_profile (under SpecEnrich)     *)

AttemptFinished == epc \in {"returned", "wrapper_except", "raised"} /\ enrichExecs > 0

\* C1: once an attempt of _extract_detailed_info_from_profile has finished,
\* by returning or by raising, the set of open windows equals the set before
\* the attempt and the focused window is the results window passed in.
C1_WindowsRestored ==
  AttemptFinished =>
    /\ Range(window_handles) = Range(preHandles)
    /\ current_window_handle = search_results_window_handle

\* the attempt raised after its window had been opened and focused
C1_Witness ==
  /\ epc = "wrapper_except"
  /\ eexc = "WebDriverException"
  /\ new_window_handle # NoHandle
  /\ new_window_handle \notin Range(window_handles)
  /\ Range(window_handles) = Range(preHandles)
  /\ current_window_handle = search_results_window_handle

---------------------------------------------------------------------------
(* Claims about _calculate_relevancy_score (checked under SpecScore)       *)

\* the start positions of sub in s
OccurrenceStarts(s, sub) ==
  {i \in 1..(Len(s) - Len(sub) + 1) : SubSeq(s, i, i + Len(sub) - 1) = sub}

\* the largest number of occurrences of sub in s no two of which overlap
Occurrences(s, sub) ==
  LET starts == OccurrenceStarts(s, sub)
      Disjoint(P) == \A i \in P, j \in P : i # j => (i - j >= Len(sub) \/ j - i >= Len(sub))
      sizes == {Cardinality(P) : P \in {Q \in SUBSET starts : Disjoint(Q)}}
  IN CHOOSE n \in sizes : \A m \in sizes : m <= n

AllIdentityEmpty(info) ==
  /\ info.ProductTitle = <<>> /\ info.CompanyName = <<>>
  /\ info.PhoneNumber = <<>> /\ info.Email = <<>>
  /\ info.Address = <<>> /\ info.ProductCatalogURL = <<>>

\* C8: the score is an integer in 0..100, and exactly 0 when description,
\* company name, phone, email, address and catalog reference are all empty.
C8_ScoreRange ==
  spc = "scored" =>
    /\ score \in 0..100
    /\ AllIdentityEmpty(seller_info) => score = 0

\* the cap engages: the terms add up to more than 100
C8_Witness ==
  /\ spc = "scored"
  /\ score = 100
  /\ Bonuses(seller_info) = 15
  /\ seller_info.CompanyName # <<>>
  /\ Occurrences(Lower(seller_info.ProductTitle), Lower(keyword)) >= 1

\* what the company-name term and the flat bonuses can add up to
RestOfScore(info, kw) == {n + Bonuses(info) : n \in NameTerms(info, kw)}

ScenarioLead(info, kw) ==
  /\ Occurrences(Lower(info.ProductTitle), Lower(kw)) = 1
  /\ Contains(Lower(info.CompanyName), Lower(kw))
  /\ info.PhoneNumber # <<>> /\ info.Email # <<>>
  /\ info.Address = <<>> /\ info.ProductCatalogURL = <<>>

\* C9 as stated: with n >= 1 occurrences of the keyword in the description
\* the description term is 60 + min(10, 2*(n-1)), and the scenario lead
\* (one occurrence, name match, phone and email) scores exactly 95.
C9_AdditionalOccurrences ==
  LET n == Occurrences(Lower(seller_info.ProductTitle), Lower(keyword)) IN
  (spc = "scored" /\ n >= 1) =>
    /\ \E rest \in RestOfScore(seller_info, keyword) :
         score = Min(100, 60 + Min(10, 2 * (n - 1)) + rest)
    /\ ScenarioLead(seller_info, keyword) => score = 95

\* C9 amended: with n >= 1 non-overlapping occurrences the description term
\* is 60 + min(10, 2*n); a single occurrence contributes 62 and the scenario
\* lead scores exactly 97.
C9_EveryOccurrence ==
  LET n == Occurrences(Lower(seller_info.ProductTitle), Lower(keyword)) IN
  (spc = "scored" /\ n >= 1) =>
    /\ \E rest \in RestOfScore(seller_info, keyword) :
         score = Min(100, 60 + Min(10, 2 * n) + rest)
    /\ ScenarioLead(seller_info, keyword) => score = 97

C9_Witness ==
  /\ spc = "scored"
  /\ ScenarioLead(seller_info, keyword)
  /\ score = 97

\* C10: when the description contains the keyword as a literal substring,
\* compared case-insensitively, the total score is at least 60.
C10_SubstringAtLeast60 ==
  (spc = "scored" /\ Contains(Lower(seller_info.ProductTitle), Lower(keyword)))
    => score >= 60

\* the match exists only case-insensitively, and nothing else adds points
C10_Witness ==
  /\ spc = "scored"
  /\ Contains(Lower(seller_info.ProductTitle), Lower(keyword))
  /\ ~Contains(seller_info.ProductTitle, keyword)
  /\ seller_info.CompanyName = <<>>
  /\ Bonuses(seller_info) = 0
  /\ score = 62


\* C11: the company-name term is 30 when the lower-cased keyword is a
\* substring of the lower-cased name, floor(0.3 * partialRatio) otherwise and
\* 0 for an empty name; phone adds 3, email 2, address 5, catalog reference
\* 5; the sum of all terms is capped at 100.
C11_NameTermAndBonuses ==
  spc = "scored" =>
    LET name == Lower(seller_info.CompanyName)
        nameTerm == IF name = <<>> THEN {0}
                    ELSE IF Contains(name, Lower(keyword)) THEN {30}
                    ELSE {(3 * r) \div 10 : r \in 0..100}
        bonus == (IF seller_info.PhoneNumber # <<>> THEN 3 ELSE 0)
                 + (IF seller_info.Email # <<>> THEN 2 ELSE 0)
                 + (IF seller_info.Address # <<>> THEN 5 ELSE 0)
                 + (IF seller_info.ProductCatalogURL # <<>> THEN 5 ELSE 0)
    IN \E d \in DescTerms(seller_info, keyword), n \in nameTerm :
         score = Min(100, d + n + bonus)

\* no description, the name matches only case-insensitively, all four bonuses
C11_Witness ==
  /\ spc = "scored"
  /\ seller_info.ProductTitle = <<>>
  /\ Contains(Lower(seller_info.CompanyName), Lower(keyword))
  /\ ~Contains(seller_info.CompanyName, keyword)
  /\ seller_info.PhoneNumber # <<>> /\ seller_info.Email # <<>>
  /\ seller_info.Address # <<>> /\ seller_info.ProductCatalogURL # <<>>
  /\ score = 45


---------------------------------------------------------------------------
(* Claims about the field validators (checked under SpecValidate)          *)

\* the digit characters of a text, in order
DigitCharsOf(text) ==
  SelectSeq(text, LAMBDA c : c \in {"0", "1", "2", "3", "4", "5", "6", "7", "8", "9"})

IndianPrefix(digits) ==
  \/ Len(digits) >= 2 /\ digits[1] = "9" /\ digits[2] = "1"
  \/ Len(digits) >= 1 /\ digits[1] = "0"

TrailingTen(digits) == [i \in 1..10 |-> digits[Len(digits) - 10 + i]]

PhoneReturned == fn = "validate_phone" /\ fpc = "done"

\* C12: an input with exactly 10 digit characters comes back as those 10
\* digits; an input with 11 or 12 digit characters whose digit string begins
\* with "91" or "0" comes back as its trailing 10 digits.
C12_CleanNumbers ==
  PhoneReturned =>
    LET d == DigitCharsOf(arg) IN
      /\ Len(d) = 10 => ret = d
      /\ (Len(d) \in {11, 12} /\ IndianPrefix(d)) => ret = TrailingTen(d)

\* "0" followed by ten digits, with a dash and a space among them
C12_Witness ==
  /\ PhoneReturned
  /\ Len(DigitCharsOf(arg)) = 11
  /\ arg[1] = "0"
  /\ Len(arg) = 13
  /\ ret = TrailingTen(DigitCharsOf(arg))

\* C13: a non-empty input of any other shape (fewer than 10 digits, more
\* than 12, or 11-12 digits not beginning with "91" or "0") comes back
\* unchanged, non-digit characters included; the empty input gives "".
C13_OtherShapesPassThrough ==
  PhoneReturned =>
    LET d == DigitCharsOf(arg)
        other == \/ Len(d) < 10
                 \/ Len(d) > 12
                 \/ Len(d) \in {11, 12} /\ ~IndianPrefix(d)
    IN /\ (arg # <<>> /\ other) => ret = arg
       /\ arg = <<>> => ret = <<>>

\* eleven digits that begin with neither "91" nor "0", and a dash
C13_Witness ==
  /\ PhoneReturned
  /\ Len(DigitCharsOf(arg)) = 11
  /\ ~IndianPrefix(DigitCharsOf(arg))
  /\ Len(arg) = 12
  /\ ret = arg

EmailReturned == fn = "validate_email" /\ fpc = "done"

HasChar(text, c) == \E i \in 1..Len(text) : text[i] = c

FirstIndexOf(text, c) == CHOOSE i \in 1..Len(text) : text[i] = c /\ \A j \in 1..(i - 1) : text[j] # c

\* everything after the first "@"
AfterAt(text) == SubSeq(text, FirstIndexOf(text, "@") + 1, Len(text))

\* what lies between the first "@" and the next "@", or the end
DomainPart(text) ==
  LET rest == AfterAt(text) IN
  IF HasChar(rest, "@") THEN SubSeq(rest, 1, FirstIndexOf(rest, "@") - 1) ELSE rest

Blank(c) == c \in {" ", "\t", "\n"}

\* text without its leading and trailing whitespace
Trimmed(text) ==
  IF \A i \in 1..Len(text) : Blank(text[i]) THEN <<>>
  ELSE LET first == CHOOSE i \in 1..Len(text) : ~Blank(text[i]) /\ \A j \in 1..(i - 1) : Blank(text[j])
           last == CHOOSE i \in 1..Len(text) : ~Blank(text[i]) /\ \A j \in (i + 1)..Len(text) : Blank(text[j])
       IN SubSeq(text, first, last)

Lowercased(text) == [i \in 1..Len(text) |-> IF text[i] = "A" THEN "a" ELSE text[i]]

---------------------------------------------------------------------------
(* Claims about the lead store (checked under SpecScrape)                  *)

\* C15: every record in the lead store has a non-empty company name or a
\* non-empty product title/description.
C15_RetainedHaveIdentity ==
  \A i \in 1..Len(leads) :
    leads[i].CompanyName # <<>> \/ leads[i].ProductTitle # <<>>

\* a record with neither was scored and left out, one with only a title is in
C15_Witness ==
  /\ score_calls > Len(leads)
  /\ \E i \in 1..Len(leads) :
       leads[i].CompanyName = <<>> /\ leads[i].ProductTitle # <<>>

\* the values of a record that are texts
TextValues(lead) ==
  {lead[k] : k \in {f \in {"CompanyName", "CompanyProfileURL", "ProductTitle",
                             "ProductCatalogURL", "Price", "Address", "PhoneNumber",
                             "Email"} : lead[f] # NoText}}

IsSanitized(text) ==
  /\ text # <<>> => ~Blank(text[1]) /\ ~Blank(text[Len(text)])
  /\ \A i \in 1..Len(text) : text[i] \notin {"\n", "\t"}
  /\ \A i \in 1..(Len(text) - 1) : ~(text[i] = " " /\ text[i + 1] = " ")

\* C16: every text field of every record in the lead store has no leading or
\* trailing whitespace, no newline or tab and no two consecutive spaces.
C16_StoredTextSanitized ==
  \A i \in 1..Len(leads) : \A text \in TextValues(leads[i]) : IsSanitized(text)

\* the card whose texts held a newline, a tab and a run of spaces is stored
C16_Witness ==
  \E i \in 1..Len(leads) :
    /\ leads[i].ProductTitle = <<"b", " ", "b">>
    /\ leads[i].CompanyName = <<"B", " ", "b">>
    /\ leads[i].Address = <<"d", " ", "d">>

\* C17: the number of accepted leads never exceeds min_leads, and once it
\* has reached min_leads no listing is enriched, scored or stored and no
\* "next page" click is issued.
C17_StopsAtMinLeads ==
  /\ [](Len(leads) <= min_leads)
  /\ [][(scpc \notin {"idle", "start"} /\ Len(leads) >= min_leads) =>
          /\ leads' = leads
          /\ enrich_calls' = enrich_calls
          /\ score_calls' = score_calls
          /\ next_clicks' = next_clicks]_vars

\* the count was reached with a listing of the page still unprocessed
C17_Witness ==
  /\ scpc = "returned"
  /\ min_leads >= 1
  /\ Len(leads) = min_leads
  /\ card_idx < Len(page_cards)
  /\ scrape_exc = NoExc

\* C20: when an unexpected error or a timeout ends the scraping of a page
\* after k >= 1 leads were accepted, nothing more is collected or paged,
\* scrape_search_results returns exactly those k leads, and run calls
\* export_to_csv on them (k rows are written unless the writing fails).
C20_FailureKeepsLeads ==
  /\ []((xpc = "done" /\ scrape_exc # NoExc /\ Len(leads) >= 1) =>
          /\ run_leads = leads
          /\ export_success \in {"True", "False"}
          /\ export_success = "True" => Len(csv_rows) = Len(leads))
  /\ [][scrape_exc # NoExc =>
          /\ leads' = leads
          /\ page_num' = page_num
          /\ next_clicks' = next_clicks
          /\ enrich_calls' = enrich_calls]_vars

\* the second page timed out after one lead, which was exported
C20_Witness ==
  /\ xpc = "done"
  /\ scrape_exc = "TimeoutException"
  /\ page_num = 2
  /\ Len(leads) = 1
  /\ run_leads = leads
  /\ export_success = "True"
  /\ Len(csv_rows) = 1

---------------------------------------------------------------------------
(* Claims about export_to_csv (checked under SpecExport)                   *)

Exported == xpc = "done" /\ export_success = "True"

RowOrders(n) == {f \in [1..n -> 1..n] : \A i, j \in 1..n : i # j => f[i] # f[j]}

\* C18: the written rows are the leads of the store, one row each, in order
\* of non-increasing relevancy score, leads of equal score in their
\* discovery order.
C18_StableDescendingRows ==
  Exported =>
    /\ Len(csv_rows) = Len(leads)
    /\ \E f \in RowOrders(Len(leads)) :
         /\ \A i \in 1..Len(leads) : csv_rows[i] = Row(leads[f[i]])
         /\ \A i, j \in 1..Len(leads) :
              i < j => \/ leads[f[i]].RelevancyScore > leads[f[j]].RelevancyScore
                       \/ /\ leads[f[i]].RelevancyScore = leads[f[j]].RelevancyScore
                          /\ f[i] < f[j]

\* the lowest score was found first, the two others tie
C18_Witness ==
  /\ Exported
  /\ leads = <<LeadNameOnly, LeadTitleOnly, LeadOtherTitle>>
  /\ csv_rows = <<Row(LeadTitleOnly), Row(LeadOtherTitle), Row(LeadNameOnly)>>

\* the lead written in row i
RowLead(i) == sorted_leads(leads)[i]

Columns(lead, price) ==
  <<lead.CompanyName, lead.ProductTitle, price, lead.Address, lead.PhoneNumber, lead.Email,
    IF lead.ProductCatalogURL = NoText THEN <<>> ELSE lead.ProductCatalogURL,
    IF lead.CompanyProfileURL = NoText THEN <<>> ELSE lead.CompanyProfileURL,
    lead.RelevancyScore>>

---------------------------------------------------------------------------
(* Claims about run (checked under SpecRun and SpecRunFair)                *)

Called(op) == \E i \in DOMAIN run_calls : run_calls[i] = op
LastCall == IF run_calls = <<>> THEN NoneVal ELSE run_calls[Len(run_calls)]
LoginFailed == login_success \in {"False", NoneVal}
SearchFailed == search_success \in {"False", NoneVal}
Closing == pc \in {"run_close", "run_quit", "run_done"}

\* C21: when login reports failure run calls neither search_product nor
\* scrape_search_results nor export_to_csv; when search_product reports
\* failure run calls neither scrape_search_results nor export_to_csv; in
\* both cases the only thing left is the final close(), the run ends with
\* it, and no row is written to the output file
C21_FailureSkipsTheRest ==
  /\ LoginFailed =>
       /\ ~Called("search_product") /\ searchExecs = 0
       /\ ~Called("scrape_search_results") /\ scpc = "idle"
       /\ ~Called("export_to_csv") /\ xpc = "idle"
  /\ SearchFailed =>
       /\ ~Called("scrape_search_results") /\ scpc = "idle"
       /\ ~Called("export_to_csv") /\ xpc = "idle"
  /\ (LoginFailed \/ SearchFailed) =>
       /\ Closing
       /\ csv_rows = <<>> /\ export_success = Unset
       /\ pc = "run_done" => LastCall = "close" /\ quit_called = "True"

\* the search timed out after a successful login, and run has ended
C21_Witness ==
  /\ pc = "run_done"
  /\ login_success = "True"
  /\ search_success = "False"
  /\ searchFail = "TimeoutException"
  /\ run_calls = <<"login", "search_product", "close">>

\* C22: however run leaves its try statement, close() is the last call it
\* makes; when the loop of close() is through only the first window is
\* left, and when close() is through the browser has been quit; a
\* KeyboardInterrupt is reported by the clause for cancellation, never by
\* the one for critical errors; once run is in its finally clause close()
\* is carried out to the end, and nothing follows it
C22_CloseEndsEveryRun ==
  /\ [](/\ pc = "run_quit" => LastCall = "close" /\ window_handles = <<1>>
        /\ pc = "run_done" => LastCall = "close" /\ window_handles = <<>> /\ quit_called = "True"
        /\ quit_called = "True" => pc = "run_done"
        /\ run_report.exc = "KeyboardInterrupt" <=> run_report.clause = "cancelled"
        /\ run_report.exc # NoExc => Closing)
  /\ [][pc # "run_done"]_vars
  /\ Closing ~> pc = "run_done"

\* the user interrupted the visit of a profile, whose window was open next
\* to the first window and the results window, and run has ended
C22_Witness ==
  /\ pc = "run_done"
  /\ run_report = [exc |-> "KeyboardInterrupt", clause |-> "cancelled"]
  /\ epc = "aborted"
  /\ nextHandle = 4
  /\ quit_called = "True"

---------------------------------------------------------------------------
(* Frame claims about _extract_detailed_info_from_profile (SpecEnrich)     *)

NoProfileReference(info) == info.CompanyProfileURL = NoText \/ info.CompanyProfileURL = <<>>
ContactComplete(info) ==
  /\ info.PhoneNumber # NoText /\ info.PhoneNumber # <<>>
  /\ info.Email # NoText /\ info.Email # <<>>
  /\ info.ProductCatalogURL # NoText /\ info.ProductCatalogURL # <<>>

\* C23: called on a record without a profile reference, or with phone,
\* email and catalog reference all present, the function returns at once:
\* no window is opened, the record, the open windows and the focused window
\* stay as they are
C23_NothingToFetchNothingChanged ==
  [][(epc = "wrapper_loop" /\ attempts < max_attempts
        /\ (NoProfileReference(seller_info) \/ ContactComplete(seller_info)))
       => /\ epc' = "returned"
          /\ seller_info' = seller_info
          /\ window_handles' = window_handles
          /\ nextHandle' = nextHandle
          /\ current_window_handle' = current_window_handle]_vars

\* a record without phone and without profile reference came back as it was
C23_Witness ==
  /\ epc = "returned"
  /\ enrichExecs = 1
  /\ NoProfileReference(preInfo)
  /\ preInfo.PhoneNumber = <<>>
  /\ seller_info = preInfo
  /\ window_handles = preHandles
  /\ nextHandle = 3

ProtectedFields == {"CompanyName", "ProductTitle", "PhoneNumber", "Email", "ProductCatalogURL",
                    "CompanyProfileURL"}

\* C24: from the start of an attempt on, a company name, product title,
\* phone number, email, catalog reference or profile reference that was not
\* empty keeps its value, and so does a price other than "Not Listed"
C24_OnlyAddsFields ==
  enrichExecs > 0 =>
    /\ \A f \in ProtectedFields :
         (preInfo[f] # NoText /\ preInfo[f] # <<>>) => seller_info[f] = preInfo[f]
    /\ preInfo.Price # NotListed => seller_info.Price = preInfo.Price
    /\ seller_info.CompanyProfileURL = preInfo.CompanyProfileURL
    /\ seller_info.RelevancyScore = preInfo.RelevancyScore

\* the visit added an email and replaced the address; title, name, phone
\* and price came back as they were
C24_Witness ==
  /\ epc = "returned"
  /\ nextHandle = 4
  /\ preInfo.ProductTitle = <<"t">> /\ preInfo.CompanyName = <<"n">>
  /\ preInfo.PhoneNumber = Phone10 /\ preInfo.Price = <<"5">>
  /\ preInfo.Email = <<>> /\ seller_info.Email # <<>>
  /\ preInfo.Address = <<"d">> /\ seller_info.Address = <<"c">>
  /\ seller_info.ProductTitle = <<"t">> /\ seller_info.CompanyName = <<"n">>
  /\ seller_info.PhoneNumber = Phone10 /\ seller_info.Price = <<"5">>

---------------------------------------------------------------------------
(* Window claims about scrape_search_results (checked under SpecScrape)    *)

OnResultsWindow(focus, handles) ==
  /\ focus = search_results_window_handle
  /\ Range(handles) = Range(start_handles)

\* C25: when the for loop takes a listing, when "Show more results" is
\* clicked and when "Next" is clicked, the driver is on the window that
\* was focused when scrape_search_results began, and the open windows are
\* those that were open then
C25_ListingsStartOnResultsWindow ==
  [][/\ (scpc = "for" /\ card_idx' = card_idx + 1)
          => OnResultsWindow(current_window_handle, window_handles)
     /\ (scpc = "show_more" /\ page_expansions' = page_expansions + 1)
          => OnResultsWindow(current_window_handle, window_handles)
     /\ (scpc = "next_page" /\ next_clicks' = next_clicks + 1)
          => OnResultsWindow(current_window_handle', window_handles')]_vars

\* "Next" has been clicked after a page whose listing had its profile
\* opened in a third window
C25_Witness ==
  /\ next_clicks = 1
  /\ page_num = 2
  /\ enrich_calls >= 1
  /\ nextHandle >= 4
  /\ OnResultsWindow(current_window_handle, window_handles)
  /\ start_handles = <<1, 2>>

---------------------------------------------------------------------------
(* Claims about the steps of login and search_product (Spec, SpecRun)      *)

LoginStepsInOrder ==
  << <<"navigate", "ok">>, <<"enter_number", "ok">>, <<"send_otp", "ok">>,
     <<"enter_otp", "ok">>, <<"verify_otp", "ok">>, <<"wait_success", "ok">> >>

\* C26: login has returned True only if navigation, entry of the number,
\* the click on "Send OTP", entry of the code, the click on "Verify OTP"
\* and the wait for a logged-in signal have succeeded, in this order; a
\* step that times out or misses its element is the last one, login
\* returns False and the handler's screenshot has been saved
C26_SuccessAfterAllSteps ==
  /\ login_success = "True" => login_steps = LoginStepsInOrder
  /\ \A i \in DOMAIN login_steps :
       /\ login_steps[i][2] # "ok" => i = Len(login_steps) /\ login_success = "False"
       /\ login_steps[i][2] = "TimeoutException"
            => <<"login_timeout_error.png", 0>> \in screenshots
       /\ login_steps[i][2] = "NoSuchElementException"
            => <<"login_elements_missing.png", 0>> \in screenshots

\* "Verify OTP" was not found after the four steps before it
C26_Witness ==
  /\ login_success = "False"
  /\ Len(login_steps) = 5
  /\ login_steps[5] = <<"verify_otp", "NoSuchElementException">>
  /\ screenshots = {<<"login_elements_missing.png", 0>>}
  /\ pc = "run_done"

\* C27: when the site answers "Verify OTP" with the login form again, at
\* the address login navigated to and without a logged-in text, login
\* returns False
C27_RejectedCodeFails ==
  (/\ Len(login_steps) = 6
   /\ current_url = LoginPageUrl
   /\ page_marker = "False")
    => login_success = "False"

SearchSucceeded == pc = "run_scrape" /\ search_success = "True"

\* C28: when search_product has returned True the focused window is one
\* that was not open at entry, and the open windows are those of entry
\* and this one
C28_SuccessOnOneNewWindow ==
  SearchSucceeded =>
    /\ current_window_handle \notin Range(entryHandles)
    /\ Range(window_handles) = Range(entryHandles) \cup {current_window_handle}
    /\ Len(window_handles) = Len(entryHandles) + 1

C28_Witness ==
  /\ SearchSucceeded
  /\ entryHandles = <<1>>
  /\ entryFocus = 1
  /\ window_handles = <<1, 2>>
  /\ current_window_handle = 2

SearchStepsBeforeCity == <<"keyword", "first_button", "second_button", "new_window", "results">>
ResultsLoaded ==
  /\ Len(steps) >= 5
  /\ \A i \in 1..5 : steps[i] = <<SearchStepsBeforeCity[i], "ok">>

\* C29: once the keyword is entered, both buttons are clicked, the new
\* window is taken and the listing container is found, search_product
\* does not fail: whatever the city filter ends with, the function goes on
\* to the expansion loop and returns True, in its first execution
C29_CityFilterNeverFails ==
  ResultsLoaded =>
    /\ pc \in {"search_city", "search_show_more", "run_scrape"}
    /\ search_success = (IF pc = "run_scrape" THEN "True" ELSE Unset)
    /\ searchFail = NoExc
    /\ searchExecs = 1
    /\ Len(steps) >= 6 => steps[6][1] = "city" /\ pc # "search_city"

\* the city filter raised an error that is neither a timeout nor a missing
\* element, and search_product returned True
C29_Witness ==
  /\ SearchSucceeded
  /\ ResultsLoaded
  /\ steps[6] = <<"city", "Exception">>

LastStep(trail) == trail[Len(trail)]

\* C30: in both expansion loops a click follows a wait that found the
\* control; a wait that ends in any other way ends the loop, after which
\* search_product returns True and scrape_search_results goes on to the
\* listings of the page; neither is executed again and no handler is run
C30_ExpansionLoopStops ==
  [][/\ (show_more_clicks' = show_more_clicks + 1 \/ page_expansions' = page_expansions + 1)
          => LastStep(steps') = <<"show_more", "ok">>
     /\ (pc = "search_show_more" /\ steps' # steps /\ LastStep(steps')[2] # "ok")
          => /\ pc' = "run_scrape" /\ search_success' = "True"
             /\ searchExecs' = searchExecs /\ screenshots' = screenshots
             /\ show_more_clicks' # show_more_clicks + 1
     /\ (scpc = "show_more" /\ steps' # steps /\ LastStep(steps')[2] # "ok")
          => /\ scpc' = "find_cards" /\ scrape_exc' = scrape_exc
             /\ screenshots' = screenshots /\ pc' = pc
             /\ page_expansions' # page_expansions + 1]_vars

\* the loop of search_product clicked twice and ended on an error that is
\* neither a timeout nor a missing element
C30_Witness ==
  /\ SearchSucceeded
  /\ Len(steps) = 9
  /\ steps[7] = <<"show_more", "ok">>
  /\ steps[8] = <<"show_more", "ok">>
  /\ steps[9] = <<"show_more", "Exception">>
  /\ searchExecs = 1

---------------------------------------------------------------------------
(* The record read from a listing card                                     *)

ListingReturned == fn = "_extract_seller_info_from_listing" /\ fpc = "done"
NotFound(el) == el.o # "found"

\* C32: _extract_seller_info_from_listing returns a record for every listing
\* element and never raises; a field whose element is not found keeps its
\* default (price "Not Listed", score 0, every other field empty), and email
\* and catalog reference are empty in every returned record.
C32_ListingAlwaysReturnsRecord ==
  /\ fpc # "raised"
  /\ ListingReturned =>
       /\ ret.raised = NoExc
       /\ DOMAIN ret.info = DOMAIN EmptyInfo
       /\ ret.info.Email = <<>> /\ ret.info.ProductCatalogURL = <<>>
       /\ ret.info.RelevancyScore = 0
       /\ NotFound(arg.title) => ret.info.ProductTitle = <<>>
       /\ NotFound(arg.price) => ret.info.Price = NotListed
       /\ NotFound(arg.company) => ret.info.CompanyName = <<>>
       /\ NotFound(arg.title) /\ NotFound(arg.company) => ret.info.CompanyProfileURL = <<>>
       /\ NotFound(arg.short) /\ NotFound(arg.full) => ret.info.Address = <<>>
       /\ NotFound(arg.phone) => ret.info.PhoneNumber = <<>>

\* a card whose title is read, whose price look-up raises something other
\* than NoSuchElementException, and whose other elements are all there
C32_Witness ==
  /\ ListingReturned
  /\ arg.title.o = "found" /\ Truthy(ret.info.ProductTitle)
  /\ arg.price = Stale
  /\ arg.company.o = "found" /\ arg.phone.o = "found" /\ arg.phone.displayed
  /\ ret.info.CompanyName = <<>> /\ ret.info.PhoneNumber = <<>>

---------------------------------------------------------------------------
(* Claims about the fields read from a profile page (SpecEnrich)           *)

\* the position that follows each field's look-up in lines 471-592
AfterField ==
  [title |-> "price", price |-> "company", company |-> "address",
   address |-> "address_fallback", address_fallback |-> "phone",
   phone |-> "email", email |-> "catalog", catalog |-> "finally"]

\* C33: within one enrichment attempt, a look-up that finds no element or
\* times out (title, price, company name, address, fallback address, phone,
\* email, catalog) leaves the record as it was, raises nothing, and the
\* attempt goes on with the field that follows; a look-up that does not
\* raise is always followed by the next field in order (after an address
\* found under the product heading, the phone).
C33_AbsentFieldTolerated ==
  [][\A f \in DOMAIN AfterField :
       /\ (epc = f /\ steps' = << <<f, "absent">> >>) =>
            /\ seller_info' = seller_info
            /\ eexc' = NoExc
            /\ epc' = AfterField[f]
       /\ (epc = f /\ epc' # "except") =>
            \/ epc' = AfterField[f]
            \/ f = "address" /\ epc' = "phone" /\ steps' = << <<f, "found">> >>]_vars

\* a record with nothing but a profile reference, on whose profile page the
\* catalog look-up, the last one, found nothing and nothing was added
C33_Witness ==
  /\ epc = "finally"
  /\ eexc = NoExc
  /\ steps = << <<"catalog", "absent">> >>
  /\ new_window_handle # NoHandle
  /\ preInfo = [EmptyInfo EXCEPT !.CompanyProfileURL = ProfileUrl]
  /\ seller_info = preInfo

\* C35: a record whose address was non-empty when the enrichment attempt
\* began has a non-empty address from then on.
C35_AddressNeverEmptied ==
  (enrichExecs > 0 /\ Truthy(preInfo.Address)) => Truthy(seller_info.Address)

\* the other half of the claim: the seller contact section is consulted only
\* after the look-up under the product heading found nothing
FallbackOnlyAfterPrimaryAbsent ==
  [][epc' = "address_fallback" => epc = "address" /\ steps' = << <<"address", "absent">> >>]_vars

---------------------------------------------------------------------------
(* The profile visit of every listing (SpecScrape)                         *)

\* C36: a listing whose record has a non-empty profile reference reaches the
\* scoring of line 749 only from a call of the enrichment that was made for
\* this record and that opened a new window for it, whether or not the card
\* showed a phone number.
C36_ProfileOpenedBeforeScoring ==
  [][(scpc' = "score" /\ scpc # "score" /\ Truthy(seller_info'.CompanyProfileURL)) =>
       /\ scpc = "enriching" /\ epc = "returned"
       /\ preInfo = page_cards[card_idx]
       /\ new_window_handle # NoHandle
       /\ new_window_handle \notin Range(preHandles)]_vars

\* a record that had its phone number from the card is about to be scored
\* after its profile was opened in window 3
C36_Witness ==
  /\ scpc = "score"
  /\ preInfo = CardAnonymous
  /\ seller_info.PhoneNumber = Phone10 /\ preInfo.PhoneNumber = Phone10
  /\ new_window_handle = 3
  /\ enrich_calls = 1

---------------------------------------------------------------------------
(* Termination of scrape_search_results (SpecScrapeFair)                   *)

\* C31: with a site that offers finitely many expansions and pages,
\* scrape_search_results ends, and what it returns is the list of leads
\* accumulated so far, also when these are fewer than min_leads.
C31_ScrapeTerminates ==
  /\ [](scpc = "returned" => run_leads = leads)
  /\ (scpc = "start") ~> (scpc = "returned")

\* the site ran out of pages: the last page was scraped, its listings were
\* scored, no "Next" control was found, and no lead is returned where one
\* was asked for
C31_Witness ==
  /\ scpc = "returned"
  /\ scrape_exc = NoExc
  /\ page_num = MaxPages
  /\ next_clicks = MaxPages - 1
  /\ score_calls >= MaxPages
  /\ min_leads = 1
  /\ leads = <<>> /\ run_leads = leads

---------------------------------------------------------------------------
(* The score of a stored lead (SpecStore)                                  *)

\* C34: the relevancy score of every lead in the store is a value that
\* _calculate_relevancy_score returns for that lead as it is stored and the
\* search keyword.
C34_StoredScoreIsScoreOfStored ==
  \A i \in 1..Len(leads) : leads[i].RelevancyScore \in RelevancyScores(leads[i], keyword)

=============================================================================
